---------------------------- MODULE Spec2Model ----------------------------
(***************************************************************************)
(* FROST threshold signing bindings (lamb356/frost-ui):                    *)
(*   src/lib/frost-zcash-wasm  - the JSON binding ("json" below)           *)
(*   src/lib/frost-wasm        - the hex binding  ("hex" below)            *)
(* Both wrap the rerandomized FROST core of the reddsa crate.  The         *)
(* wrappers are translated from their source.  The core (scalar field,     *)
(* group, hashes, dealer, sign, aggregate, verify) is a dependency; it is  *)
(* modelled algebraically: the scalar field is F_Q for a small prime Q, a  *)
(* group element is written by its discrete logarithm to the base B = 1,   *)
(* and the hashes are one fixed mixing function.                           *)
(***************************************************************************)
EXTENDS Integers, Sequences, FiniteSets, TLC

\* ------------------------------------------------------------- bounds
\* Largest number of participants a key set is generated for.
MaxN == 3

\* Wire width of a scalar or point encoding, in bits (32 bytes in the source).
ScalarBits == 17
\* The encodings that fit the wire width: 0 .. EncodingSpace - 1.
EncodingSpace == 2 ^ ScalarBits
\* Order of the scalar field: the prime 2^15 + 3, two bits short of the wire
\* width, as the Pallas scalar field is just above 2^254 in a 256-bit
\* encoding: three byte strings in four are not canonical.
Q == 2 ^ (ScalarBits - 2) + 3

\* OsRng: each draw is a seed, expanded by the hash.
KeygenSeeds == {1}
NonceSeeds == {2}
RandomizerSeeds == {3, 4}
\* Raw bytes OsRng can fill a randomizer buffer with (hex binding): two
\* canonical encodings and two that are not below the field order.
RandomBytes == {1234, 20011, Q + 3, EncodingSpace - 1}
\* The bits of a share's encoding a tamperer flips.
FlipBits == {0, 9, ScalarBits - 1}
\* Messages (decoded bytes, written as numbers).
Messages == {11, 12}
\* The largest total generate_key_shares accepts.
MaxTotal == 255
\* Pairs (threshold, total) generate_key_shares is called with: the small
\* key sets whose ceremonies are followed, and the two totals at the limit
\* (the largest key set with a threshold above the participants followed).
KeygenArgs ==
    {<<t, n>> : t \in 0 .. MaxN + 1, n \in 1 .. MaxN}
        \cup {<<MaxN + 1, MaxTotal>>, <<1, MaxTotal + 1>>}

Participants == 1 .. MaxN

\* ------------------------------------------------------ field and group
FAdd(a, b) == (a + b) % Q
FSub(a, b) == (a - b + Q) % Q
FMul(a, b) == (a * b) % Q
RECURSIVE FPow(_, _)
FPow(a, e) ==
    IF e = 0 THEN 1
    ELSE LET h == FPow(a, e \div 2)
             s == FMul(h, h)
         IN IF e % 2 = 1 THEN FMul(s, a % Q) ELSE s
FInv(a) == FPow(a, Q - 2)

\* The ciphersuite's hash to a scalar, over a sequence of numbers.
Mix(h, x) == (h * 131 + (x % Q) + 7) % Q
RECURSIVE HashFrom(_, _)
HashFrom(h, s) == IF s = <<>> THEN h ELSE HashFrom(Mix(h, Head(s)), Tail(s))
HashToScalar(s) == HashFrom(Len(s) + 1, s)

\* Ascending order of a finite set of numbers (BTreeMap iteration order).
RECURSIVE SortedSeq(_)
SortedSeq(S) ==
    IF S = {} THEN <<>>
    ELSE LET m == CHOOSE x \in S : \A y \in S : x <= y
         IN <<m>> \o SortedSeq(S \ {m})

RECURSIVE SumOver(_, _)
SumOver(f, S) ==
    IF S = {} THEN 0
    ELSE LET x == CHOOSE y \in S : TRUE
         IN FAdd(f[x], SumOver(f, S \ {x}))

RECURSIVE ProdOver(_, _)
ProdOver(f, S) ==
    IF S = {} THEN 1
    ELSE LET x == CHOOSE y \in S : TRUE
         IN FMul(f[x], ProdOver(f, S \ {x}))

\* ------------------------------------------------------------- codecs
\* A scalar's canonical encoding is the number itself; an encoding decodes
\* only when it is canonical (below the field order).
ScalarCanonical(b) == b >= 0 /\ b < Q
\* A group element's encoding, likewise.
PointCanonical(b) == b >= 0 /\ b < Q
\* A verifying key must also not be the identity.
VerifyingKeyCanonical(b) == PointCanonical(b) /\ b # 0

\* Identifier::try_from(u16): zero is refused.
IdentifierTryFromOk(w) == w # 0
IdentifierTryFrom(w) == w % Q
\* Identifier::serialize: the little-endian bytes of the field element.
IdentifierSerialize(id) == <<id % 256, (id \div 256) % 256>>
\* u16::from_le_bytes([id_bytes[0], id_bytes[1]]) (JSON binding).
IdNumJson(id) ==
    LET b == IdentifierSerialize(id) IN b[1] + 256 * b[2]
\* A variant that reads the byte at the other end of the serialization.
IdNumHexHighByte(id) == IdentifierSerialize(id)[2]

\* u16::from(*identifier.serialize().first()) (hex binding).
IdNumHex(id) == IdentifierSerialize(id)[1]
IdNum(bind, id) == IF bind = "json" THEN IdNumJson(id) ELSE IdNumHex(id)

\* ------------------------------------------------------- error envelope
Err(code, message) ==
    [called |-> TRUE, ok |-> FALSE, code |-> code, message |-> message]
NotCalled == [called |-> FALSE, ok |-> FALSE]

\* ------------------------------------------------- trusted-dealer keygen
\* f(x) = a_0 + a_1 x + ... + a_{t-1} x^{t-1} with a_k = coeffs[k+1].
RECURSIVE PolyEval(_, _)
PolyEval(coeffs, x) ==
    IF coeffs = <<>> THEN 0
    ELSE FAdd(Head(coeffs), FMul(x % Q, PolyEval(Tail(coeffs), x)))

\* keys::generate_with_dealer(total, threshold, IdentifierList::Default, rng):
\* the secret and t-1 further coefficients are drawn, identifiers are 1..n.
GenerateWithDealer(total, threshold, seed) ==
    LET coeffs == [k \in 1 .. threshold |-> HashToScalar(<<seed, k>>)]
        ids == 1 .. total
        share == [i \in ids |-> PolyEval(coeffs, IdentifierTryFrom(i))]
    IN [shares |-> [i \in ids |->
                      [identifier |-> IdentifierTryFrom(i),
                       signing_share |-> share[i],
                       verifying_share |-> share[i],
                       verifying_key |-> coeffs[1],
                       min_signers |-> threshold]],
        pubkey_package |-> [verifying_shares |-> [i \in ids |-> share[i]],
                            verifying_key |-> coeffs[1]]]

\* generate_key_shares_internal of either binding.
GenerateKeySharesInternal(bind, threshold, total, seed) ==
    IF threshold = 0 \/ threshold > total
    THEN Err("KEYGEN_ERROR", <<"Invalid threshold", threshold, total>>)
    ELSE IF total > MaxTotal
    THEN Err("KEYGEN_ERROR", "Total participants must be <= 255")
    ELSE LET dealt == GenerateWithDealer(total, threshold, seed)
         IN [called |-> TRUE, ok |-> TRUE,
             group_public_key |-> dealt.pubkey_package.verifying_key,
             shares |-> [i \in 1 .. total |->
                           [identifier |-> IdNum(bind, dealt.shares[i].identifier),
                            key_package |-> dealt.shares[i]]],
             threshold |-> threshold,
             total |-> total,
             public_key_package |-> dealt.pubkey_package]

\* ------------------------------------------------------------- round 1
\* round1::commit(signing_share, rng): nonce_generate over fresh randomness
\* and the share; the commitments are the nonces times the generator.
Round1Commit(signing_share, seed) ==
    LET d == HashToScalar(<<seed, signing_share, 1>>)
        e == HashToScalar(<<seed, signing_share, 2>>)
    IN [nonces |-> [hiding |-> d, binding |-> e],
        commitments |-> [hiding |-> d, binding |-> e]]

\* generate_round1_internal of either binding.
GenerateRound1Internal(bind, key_package, seed) ==
    LET id_num == IdNum(bind, key_package.identifier)
        c == Round1Commit(key_package.signing_share, seed)
    IN [called |-> TRUE, ok |-> TRUE,
        commitment |-> [identifier |-> id_num,
                        hiding |-> c.commitments.hiding,
                        binding |-> c.commitments.binding],
        nonces |-> [identifier |-> id_num,
                    hiding |-> c.nonces.hiding,
                    binding |-> c.nonces.binding]]

\* ----------------------------------------------- signing package (core)
\* A BTreeMap<Identifier, V> is written as the sequence of its entries
\* [key, value] in ascending key order, the order it is iterated in.
MapKeys(m) == {m[k].key : k \in 1 .. Len(m)}
MapGet(m, id) == m[CHOOSE k \in 1 .. Len(m) : m[k].key = id].value

\* A variant that keeps the first entry of a wire list that maps to id.
FirstIndexOf(list, id) ==
    CHOOSE k \in 1 .. Len(list) :
        /\ IdentifierTryFrom(list[k].identifier) = id
        /\ \A j \in 1 .. k - 1 : IdentifierTryFrom(list[j].identifier) # id

\* The last entry of a wire list that maps to identifier id.
LastIndexOf(list, id) ==
    CHOOSE k \in 1 .. Len(list) :
        /\ IdentifierTryFrom(list[k].identifier) = id
        /\ \A j \in k + 1 .. Len(list) : IdentifierTryFrom(list[j].identifier) # id
ListIds(list) == {IdentifierTryFrom(list[k].identifier) : k \in 1 .. Len(list)}

\* A variant that keeps the entries in the order of the list (a Vec or an
\* insertion-ordered map in the place of the BTreeMap).
CommitmentsVec(list) ==
    [k \in 1 .. Len(list) |->
       [key |-> IdentifierTryFrom(list[k].identifier),
        value |-> [hiding |-> list[k].hiding, binding |-> list[k].binding]]]

\* The wrappers' loop over a commitments list: Identifier::try_from on each
\* record, then BTreeMap::insert, so that a later entry replaces an earlier
\* one of the same identifier and the map is ordered by identifier.
CommitmentsMap(list) ==
    LET ids == SortedSeq(ListIds(list))
    IN [k \in 1 .. Len(ids) |->
          [key |-> ids[k],
           value |-> [hiding |-> list[LastIndexOf(list, ids[k])].hiding,
                      binding |-> list[LastIndexOf(list, ids[k])].binding]]]

\* SigningPackage::new(signing_commitments, message).
SigningPackageNew(signing_commitments, message) ==
    [signing_commitments |-> signing_commitments, message |-> message]

\* The commitment list as it is hashed: entries in ascending identifier order.
EncodeGroupCommitmentList(sp) ==
    LET m == sp.signing_commitments
        Enc[k \in 0 .. Len(m)] ==
            IF k = 0 THEN <<>>
            ELSE Enc[k - 1] \o <<m[k].key, m[k].value.hiding, m[k].value.binding>>
    IN Enc[Len(m)]

\* rho_i = H_rho(i, m, list of (j, D_j, E_j)).
BindingFactor(sp, id) ==
    HashToScalar(<<1, id, sp.message>> \o EncodeGroupCommitmentList(sp))

\* R = sum over j of D_j + rho_j E_j.
GroupCommitment(sp) ==
    LET m == sp.signing_commitments
        Bj == [k \in 1 .. Len(m) |->
                 FAdd(m[k].value.hiding,
                      FMul(BindingFactor(sp, m[k].key), m[k].value.binding))]
    IN SumOver(Bj, 1 .. Len(m))

\* c = H_c(R, Y_effective, m).
Challenge(R, verifying_key, message) == HashToScalar(<<2, R, verifying_key, message>>)

\* lambda_i = product over j in S, j # i, of id_j / (id_j - id_i).
Lagrange(id, ids) ==
    LET others == ids \ {id}
        num == ProdOver([j \in others |-> j % Q], others)
        den == ProdOver([j \in others |-> FSub(j, id)], others)
    IN FMul(num, FInv(den))

\* A variant where the randomizer does not enter the keys.
FromRandomizerUnused(verifying_key, randomizer) ==
    [randomizer |-> 0,
     randomizer_element |-> 0,
     randomized_verifying_key |-> verifying_key]

\* ------------------------------------------------- rerandomization (core)
\* RandomizedParams::from_randomizer(group_verifying_key, randomizer).
FromRandomizer(verifying_key, randomizer) ==
    [randomizer |-> randomizer,
     randomizer_element |-> randomizer,
     randomized_verifying_key |-> FAdd(verifying_key, randomizer)]

\* KeyPackage randomized: every signer adds the whole randomizer to its
\* share (the Lagrange coefficients of a signer set sum to one).
RandomizeKeyPackage(kp, params) ==
    [kp EXCEPT !.signing_share = FAdd(kp.signing_share, params.randomizer),
               !.verifying_share = FAdd(kp.verifying_share, params.randomizer_element),
               !.verifying_key = params.randomized_verifying_key]

RandomizePublicKeyPackage(pk, params) ==
    [verifying_shares |-> [i \in DOMAIN pk.verifying_shares |->
                             FAdd(pk.verifying_shares[i], params.randomizer_element)],
     verifying_key |-> params.randomized_verifying_key]

\* Randomizer::new(rng, signing_package): a hash of fresh randomness and the
\* signing package.
RandomizerNew(seed, sp) ==
    HashToScalar(<<3, seed, sp.message>> \o EncodeGroupCommitmentList(sp))

\* ------------------------------------------------------- round 2 (core)
CoreErr(e) == [ok |-> FALSE, error |-> e]

\* frost round2::sign(signing_package, signer_nonces, key_package).
CoreSign(sp, nonces, kp) ==
    IF Len(sp.signing_commitments) < kp.min_signers
    THEN CoreErr("IncorrectNumberOfCommitments")
    ELSE IF kp.identifier \notin MapKeys(sp.signing_commitments)
    THEN CoreErr("MissingCommitment")
    ELSE IF MapGet(sp.signing_commitments, kp.identifier) #
              [hiding |-> nonces.hiding, binding |-> nonces.binding]
    THEN CoreErr("IncorrectCommitment")
    ELSE LET rho == BindingFactor(sp, kp.identifier)
             R == GroupCommitment(sp)
             lambda == Lagrange(kp.identifier, MapKeys(sp.signing_commitments))
             c == Challenge(R, kp.verifying_key, sp.message)
         IN [ok |-> TRUE,
             share |-> FAdd(FAdd(nonces.hiding, FMul(nonces.binding, rho)),
                            FMul(FMul(lambda, kp.signing_share), c))]

\* Rerandomized round2::sign(signing_package, nonces, key_package, randomizer).
RerandomizedSign(sp, nonces, kp, randomizer) ==
    CoreSign(sp, nonces,
             RandomizeKeyPackage(kp, FromRandomizer(kp.verifying_key, randomizer)))

\* Another encoding of the same residue: not the canonical one.
NonCanonical(b) == (b % Q) + Q

\* ---------------------------------------------- wire lists of commitments
\* The first entry of a wire list that the reconstruction loop refuses:
\* 0 when every entry is accepted.
FirstBadCommitment(list) ==
    LET bad == {k \in 1 .. Len(list) :
                  \/ ~IdentifierTryFromOk(list[k].identifier)
                  \/ ~PointCanonical(list[k].hiding)
                  \/ ~PointCanonical(list[k].binding)}
    IN IF bad = {} THEN 0 ELSE CHOOSE k \in bad : \A j \in bad : k <= j

\* The empty string of the hex binding's randomizer_hex.
EmptyHex == -1

\* ----------------------------------------- signing package (JSON binding)
\* create_signing_package_internal(commitments_json, message_hex,
\* public_key_package_json), with the randomness RandomizedParams::new draws.
CreateSigningPackageInternal(commitments_list, message, pubkey_package, seed) ==
    LET bad == FirstBadCommitment(commitments_list)
    IN IF bad # 0
       THEN IF ~IdentifierTryFromOk(commitments_list[bad].identifier)
            THEN Err("SIGNING_PACKAGE_ERROR", "Invalid identifier")
            ELSE Err("SIGNING_PACKAGE_ERROR", "Invalid commitment JSON")
       ELSE LET sp == SigningPackageNew(CommitmentsMap(commitments_list), message)
            IN [called |-> TRUE, ok |-> TRUE,
                signing_package |-> sp,
                randomizer |-> RandomizerNew(seed, sp)]

\* generate_randomizer() (hex binding): 32 bytes from OsRng, hex-encoded.
GenerateRandomizer(bytes) == bytes

\* ------------------------------------------------------------- round 2
\* A variant that reports the identifier the nonces record is labelled with.
GenerateRound2InternalJsonNoncesLabel(key_package, nonces_info, signing_package, randomizer_json) ==
    IF ~(ScalarCanonical(nonces_info.hiding) /\ ScalarCanonical(nonces_info.binding))
    THEN Err("ROUND2_ERROR", "Invalid inner nonces JSON")
    ELSE IF ~ScalarCanonical(randomizer_json)
    THEN Err("ROUND2_ERROR", "Invalid randomizer JSON")
    ELSE LET r == RerandomizedSign(signing_package, nonces_info, key_package,
                                   randomizer_json)
         IN IF ~r.ok
            THEN Err("ROUND2_ERROR", r.error)
            ELSE [called |-> TRUE, ok |-> TRUE,
                  identifier |-> nonces_info.identifier,
                  share |-> r.share]

\* generate_round2_internal (JSON binding).
GenerateRound2InternalJson(key_package, nonces_info, signing_package, randomizer_json) ==
    IF ~(ScalarCanonical(nonces_info.hiding) /\ ScalarCanonical(nonces_info.binding))
    THEN Err("ROUND2_ERROR", "Invalid inner nonces JSON")
    ELSE IF ~ScalarCanonical(randomizer_json)
    THEN Err("ROUND2_ERROR", "Invalid randomizer JSON")
    ELSE LET r == RerandomizedSign(signing_package, nonces_info, key_package,
                                   randomizer_json)
         IN IF ~r.ok
            THEN Err("ROUND2_ERROR", r.error)
            ELSE [called |-> TRUE, ok |-> TRUE,
                  identifier |-> IdNumJson(key_package.identifier),
                  share |-> r.share]

\* generate_round2_internal (hex binding); rng_bytes is what OsRng yields
\* when randomizer_hex is empty.
GenerateRound2InternalHex(key_package, my_nonces, commitments_list, message, randomizer_hex, rng_bytes) ==
    LET id == IdNumHex(key_package.identifier)
        bad == FirstBadCommitment(commitments_list)
    IN IF ~(ScalarCanonical(my_nonces.hiding) /\ ScalarCanonical(my_nonces.binding))
       THEN Err("ROUND2_ERROR", "Invalid nonce bytes")
       ELSE IF bad # 0
       THEN IF ~IdentifierTryFromOk(commitments_list[bad].identifier)
            THEN Err("ROUND2_ERROR", "Invalid commitment identifier")
            ELSE Err("ROUND2_ERROR", "Invalid commitment bytes")
       ELSE LET sp == SigningPackageNew(CommitmentsMap(commitments_list), message)
                rb == IF randomizer_hex = EmptyHex THEN rng_bytes ELSE randomizer_hex
            IN IF ~ScalarCanonical(rb)
               THEN IF randomizer_hex = EmptyHex
                    THEN Err("ROUND2_ERROR", "Failed to create randomizer")
                    ELSE Err("ROUND2_ERROR", "Invalid randomizer")
               ELSE LET r == RerandomizedSign(sp, my_nonces, key_package, rb)
                    IN IF ~r.ok
                       THEN Err("ROUND2_ERROR", r.error)
                       ELSE [called |-> TRUE, ok |-> TRUE,
                             identifier |-> id,
                             share |-> r.share]

\* ---------------------------------------------------- aggregation (core)
\* Share verification: z_j B = B_j + lambda_j c Y_j.
ShareValid(sp, id, share, pk, c) ==
    LET cm == MapGet(sp.signing_commitments, id)
        Bj == FAdd(cm.hiding, FMul(BindingFactor(sp, id), cm.binding))
        lambda == Lagrange(id, MapKeys(sp.signing_commitments))
    IN share = FAdd(Bj, FMul(FMul(lambda, c), pk.verifying_shares[id]))

\* Schnorr verification: z B = R + H_c(R, Y, m) Y.
VerifySchnorr(verifying_key, message, sig) ==
    sig.z = FAdd(sig.R, FMul(Challenge(sig.R, verifying_key, message), verifying_key))

\* A variant that returns the sum of the shares without verifying it.
CoreAggregateUnverified(sp, shares, pk) ==
    IF \/ Len(sp.signing_commitments) # Len(shares)
       \/ MapKeys(sp.signing_commitments) # MapKeys(shares)
    THEN [ok |-> FALSE, error |-> "UnknownIdentifier", culprit |-> 0]
    ELSE [ok |-> TRUE,
          signature |-> [R |-> GroupCommitment(sp),
                         z |-> SumOver([k \in 1 .. Len(shares) |-> shares[k].value],
                                       1 .. Len(shares))]]

\* frost aggregate(signing_package, signature_shares, pubkeys).
\* The signature is formed and verified; when it does not verify, the
\* shares are checked in the order of the map and the first bad one is named.
CoreAggregate(sp, shares, pk) ==
    LET cids == MapKeys(sp.signing_commitments)
    IN IF Len(sp.signing_commitments) # Len(shares)
       THEN [ok |-> FALSE, error |-> "UnknownIdentifier", culprit |-> 0]
       ELSE IF \E id \in cids :
                   id \notin MapKeys(shares) \/ id \notin DOMAIN pk.verifying_shares
       THEN [ok |-> FALSE, error |-> "UnknownIdentifier", culprit |-> 0]
       ELSE LET R == GroupCommitment(sp)
                z == SumOver([k \in 1 .. Len(shares) |-> shares[k].value],
                             1 .. Len(shares))
                c == Challenge(R, pk.verifying_key, sp.message)
                sig == [R |-> R, z |-> z]
                bad == {k \in 1 .. Len(shares) :
                          ~ShareValid(sp, shares[k].key, shares[k].value, pk, c)}
            IN IF VerifySchnorr(pk.verifying_key, sp.message, sig)
               THEN [ok |-> TRUE, signature |-> sig]
               ELSE IF bad # {}
               THEN [ok |-> FALSE, error |-> "InvalidSignatureShare",
                     culprit |-> shares[CHOOSE k \in bad : \A o \in bad : k <= o].key]
               ELSE [ok |-> FALSE, error |-> "InvalidSignature", culprit |-> 0]

\* Rerandomized aggregate(signing_package, shares, pubkeys, randomized_params).
RerandomizedAggregate(sp, shares, pk, params) ==
    CoreAggregate(sp, shares, RandomizePublicKeyPackage(pk, params))

\* The wrappers' loop over a shares list, into a BTreeMap likewise.
SharesMap(list) ==
    LET ids == SortedSeq(ListIds(list))
    IN [k \in 1 .. Len(ids) |->
          [key |-> ids[k], value |-> list[LastIndexOf(list, ids[k])].share]]

\* The first share record the reconstruction loop refuses: 0 when none.
FirstBadShare(list) ==
    LET bad == {k \in 1 .. Len(list) :
                  \/ ~IdentifierTryFromOk(list[k].identifier)
                  \/ ~ScalarCanonical(list[k].share)}
    IN IF bad = {} THEN 0 ELSE CHOOSE k \in bad : \A j \in bad : k <= j

AggErr(message, culprit) ==
    [called |-> TRUE, ok |-> FALSE, code |-> "AGGREGATE_ERROR",
     message |-> message, culprit |-> culprit]

\* aggregate_internal (JSON binding).
AggregateInternalJson(shares_list, signing_package, pubkey_package, randomizer_json) ==
    LET bad == FirstBadShare(shares_list)
    IN IF ~ScalarCanonical(randomizer_json)
       THEN AggErr("Invalid randomizer JSON", 0)
       ELSE IF bad # 0
       THEN IF ~IdentifierTryFromOk(shares_list[bad].identifier)
            THEN AggErr("Invalid identifier", 0)
            ELSE AggErr("Invalid share JSON", 0)
       ELSE LET params == FromRandomizer(pubkey_package.verifying_key, randomizer_json)
                r == RerandomizedAggregate(signing_package, SharesMap(shares_list),
                                           pubkey_package, params)
            IN IF ~r.ok
               THEN AggErr(r.error, r.culprit)
               ELSE [called |-> TRUE, ok |-> TRUE,
                     signature |-> r.signature,
                     randomizer |-> randomizer_json]

\* aggregate_internal (hex binding).
AggregateInternalHex(shares_list, commitments_list, message, pubkey_package, randomizer_hex) ==
    LET badc == FirstBadCommitment(commitments_list)
        bads == FirstBadShare(shares_list)
    IN IF ~ScalarCanonical(randomizer_hex)
       THEN AggErr("Invalid randomizer", 0)
       ELSE IF badc # 0
       THEN IF ~IdentifierTryFromOk(commitments_list[badc].identifier)
            THEN AggErr("Invalid commitment identifier", 0)
            ELSE AggErr("Invalid commitment bytes", 0)
       ELSE IF bads # 0
       THEN IF ~IdentifierTryFromOk(shares_list[bads].identifier)
            THEN AggErr("Invalid share identifier", 0)
            ELSE AggErr("Invalid signature share bytes", 0)
       ELSE LET params == FromRandomizer(pubkey_package.verifying_key, randomizer_hex)
                sp == SigningPackageNew(CommitmentsMap(commitments_list), message)
                r == RerandomizedAggregate(sp, SharesMap(shares_list),
                                           pubkey_package, params)
            IN IF ~r.ok
               THEN AggErr(r.error, r.culprit)
               ELSE [called |-> TRUE, ok |-> TRUE,
                     signature |-> r.signature]

\* ------------------------------------------------------------ verification
VerifyErr(message) ==
    [called |-> TRUE, ok |-> FALSE, code |-> "VERIFY_ERROR", message |-> message]

\* Signature::deserialize: R a canonical point, z a canonical scalar.
SignatureCanonical(sig) == PointCanonical(sig.R) /\ ScalarCanonical(sig.z)

\* A message string hex::decode refuses.
NotHex == -2

\* verify_internal (JSON binding).
VerifyInternalJson(signature_hex, message, group_public_key_hex, randomizer_json) ==
    IF ~SignatureCanonical(signature_hex)
    THEN VerifyErr("Invalid signature")
    ELSE IF message = NotHex
    THEN VerifyErr("Invalid message hex")
    ELSE IF ~VerifyingKeyCanonical(group_public_key_hex)
    THEN VerifyErr("Invalid verifying key")
    ELSE IF ~ScalarCanonical(randomizer_json)
    THEN VerifyErr("Invalid randomizer JSON")
    ELSE LET params == FromRandomizer(group_public_key_hex, randomizer_json)
         IN [called |-> TRUE, ok |-> TRUE,
             valid |-> VerifySchnorr(params.randomized_verifying_key, message,
                                     signature_hex)]

\* verify_internal (hex binding).
VerifyInternalHex(signature_hex, message, group_public_key_hex, randomizer_hex) ==
    IF message = NotHex
    THEN VerifyErr("Invalid message hex")
    ELSE IF ~SignatureCanonical(signature_hex)
    THEN VerifyErr("Invalid signature")
    ELSE IF ~VerifyingKeyCanonical(group_public_key_hex)
    THEN VerifyErr("Invalid group public key")
    ELSE IF ~ScalarCanonical(randomizer_hex)
    THEN VerifyErr("Invalid randomizer")
    ELSE LET params == FromRandomizer(group_public_key_hex, randomizer_hex)
         IN [called |-> TRUE, ok |-> TRUE,
             valid |-> VerifySchnorr(params.randomized_verifying_key, message,
                                     signature_hex)]

\* ------------------------------------------------------- XEdDSA crate
\* Byte strings of the XEdDSA crate are written with their length: the
\* wrappers test the length before they copy into a fixed-size array.
KeyLen == 32
SignatureLen == 64
Bytes(len, val) == [len |-> len, val |-> val]

\* Clamping of the 32 secret bytes: a nonzero scalar.
ClampInteger(b) == (b % (Q - 1)) + 1

\* The sign bit of an Edwards point.
SignBit(x) == x % 2

\* The u-coordinate of a Montgomery point: the same for a point and its
\* negative.
MontgomeryU(x) == (x * x) % Q

\* x25519 PublicKey::from(&secret).
X25519PublicKey(secret) == MontgomeryU(ClampInteger(secret))

\* The Edwards points of sign bit 0 whose u-coordinate is u.
EdwardsFromMontgomery(u) ==
    {y \in 1 .. Q - 1 : MontgomeryU(y) = u /\ SignBit(y) = 0}

\* A variant that keeps the scalar whatever the sign of its public point.
CalculateKeyPairNoFlip(k) == [a |-> ClampInteger(k), A |-> ClampInteger(k)]

\* calculate_key_pair: the scalar is negated when its public point has
\* sign bit 1, so that the Edwards public key always has sign bit 0.
CalculateKeyPair(k) ==
    LET a0 == ClampInteger(k)
    IN IF SignBit(a0) = 1
       THEN [a |-> FSub(0, a0), A |-> FSub(0, a0)]
       ELSE [a |-> a0, A |-> a0]

\* XEdDSA sign with 64 random bytes z: r = H1(a, M, z), R = rB,
\* h = H(R, A, M), s = r + h a.
XedSign(k, message, z) ==
    LET kp == CalculateKeyPair(k)
        r == HashToScalar(<<4, kp.a, message, z>>)
        h == HashToScalar(<<5, r, kp.A, message>>)
    IN [R |-> r, s |-> FAdd(r, FMul(h, kp.a))]

\* XEdDSA verify: the u-coordinate is converted to the Edwards point of sign
\* bit 0, then R = sB - hA.
XedVerify(u, message, sig) ==
    LET As == EdwardsFromMontgomery(u)
    IN /\ As # {}
       /\ ScalarCanonical(sig.s) /\ PointCanonical(sig.R)
       /\ LET A == CHOOSE y \in As : TRUE
              h == HashToScalar(<<5, sig.R, A, message>>)
          IN sig.R = FSub(sig.s, FMul(h, A))

XedErr(message) == [called |-> TRUE, ok |-> FALSE, error |-> message]

\* generate_keypair with the 32 bytes StaticSecret::random_from_rng draws.
GenerateKeypairFrom(seed) ==
    [called |-> TRUE, ok |-> TRUE,
     private_key |-> Bytes(KeyLen, seed),
     public_key |-> Bytes(KeyLen, X25519PublicKey(seed))]

\* get_public_key(private_key).
GetPublicKeyOf(private_key) ==
    IF private_key.len # KeyLen
    THEN XedErr("Private key must be 32 bytes")
    ELSE [called |-> TRUE, ok |-> TRUE,
          value |-> Bytes(KeyLen, X25519PublicKey(private_key.val))]

\* sign(private_key, message) with the randomness OsRng yields.
SignWith(private_key, message, z) ==
    IF private_key.len # KeyLen
    THEN XedErr("Private key must be 32 bytes")
    ELSE LET sig == XedSign(private_key.val, message, z)
         IN [called |-> TRUE, ok |-> TRUE,
             value |-> [len |-> SignatureLen, R |-> sig.R, s |-> sig.s]]

\* A variant that tests the length of the signature first.
VerifyWithSignatureFirst(public_key, message, signature) ==
    IF signature.len # SignatureLen
    THEN XedErr("Signature must be 64 bytes")
    ELSE IF public_key.len # KeyLen
    THEN XedErr("Public key must be 32 bytes")
    ELSE [called |-> TRUE, ok |-> TRUE,
          value |-> XedVerify(public_key.val, message, signature)]

\* verify(public_key, message, signature).
VerifyWith(public_key, message, signature) ==
    IF public_key.len # KeyLen
    THEN XedErr("Public key must be 32 bytes")
    ELSE IF signature.len # SignatureLen
    THEN XedErr("Signature must be 64 bytes")
    ELSE [called |-> TRUE, ok |-> TRUE,
          value |-> XedVerify(public_key.val, message, signature)]

\* --------------------------------------------------------------- state
\* The library keeps no state of its own; the state is what the callers of
\* one ceremony hold: the dealer's output, each participant's round-1 and
\* round-2 results, the coordinator's ceremony context, and what the last
\* aggregate_signature and verify_signature calls were given and returned.
VARIABLES
    binding,    \* which crate is in use: "json" or "hex"
    kg,         \* what generate_key_shares returned
    r1,         \* per participant: what generate_round1_commitment returned
    ctx,        \* the coordinator's context: commitments, message, randomizer
    sh,         \* per participant: what its last generate_round2_signature returned
    agg,        \* the last aggregate_signature call
    ver,        \* the last verify_signature call
    two,        \* two ceremonies run side by side: their results, call by call
    xed,        \* the last calls of the XEdDSA crate
    idm         \* two wire identifiers and what the binding reports for them

vars == <<binding, kg, r1, ctx, sh, agg, ver, two, xed, idm>>

\* The orders a caller may pass a list in: as collected, or reversed.
Reverse(s) == [k \in 1 .. Len(s) |-> s[Len(s) + 1 - k]]
Orders(s) == {s, Reverse(s)}
InOrder(s, reversed) == IF reversed THEN Reverse(s) ELSE s

Committed == {i \in Participants : r1[i].ok}
Signed == {i \in Participants : sh[i].ok}

\* The commitments of the participants in S, in ascending order.
CommitmentsOf(S) ==
    LET ids == SortedSeq(S) IN [k \in 1 .. Len(ids) |-> r1[ids[k]].commitment]

\* The share records the participants in T returned, in ascending order.
SharesOf(T) ==
    LET ids == SortedSeq(T)
    IN [k \in 1 .. Len(ids) |->
          [identifier |-> sh[ids[k]].result.identifier,
           share |-> sh[ids[k]].result.share]]

NoContext == [made |-> FALSE, ok |-> FALSE]

\* Two ceremonies of which no call has been made yet.
Ceremonies == {1, 2}
NoCeremony ==
    [kg |-> NotCalled, r1 |-> <<NotCalled, NotCalled>>, ctx |-> NoContext,
     sh |-> <<NotCalled, NotCalled>>, agg |-> NotCalled, ver |-> NotCalled,
     again |-> NotCalled]
NoCeremonies == [calls |-> 0, cer |-> [c \in Ceremonies |-> NoCeremony]]

\* No identifier converted yet.
NoConversions == [first |-> NotCalled, second |-> NotCalled]

\* No call of the XEdDSA crate made yet.
NoXed == [kp |-> NotCalled, pub |-> NotCalled, sig |-> NotCalled, ver |-> NotCalled]

\* Every signer of the context has returned a share.
AllSigned == ctx.made /\ ctx.ok /\ ctx.signers \subseteq Signed

Init ==
    /\ binding \in {"json", "hex"}
    /\ kg = NotCalled
    /\ r1 = [i \in Participants |-> NotCalled]
    /\ ctx = NoContext
    /\ sh = [i \in Participants |-> NotCalled]
    /\ agg = NotCalled
    /\ ver = NotCalled
    /\ two = NoCeremonies
    /\ xed = NoXed
    /\ idm = NoConversions

GenerateKeyShares ==
    /\ ~kg.called
    /\ \E a \in KeygenArgs, seed \in KeygenSeeds :
          kg' = [args |-> a] @@ GenerateKeySharesInternal(binding, a[1], a[2], seed)
    /\ UNCHANGED <<binding, r1, ctx, sh, agg, ver, two, xed, idm>>

GenerateRound1Commitment ==
    /\ kg.ok
    /\ ~ctx.made
    /\ \E i \in Participants \cap 1 .. kg.total, seed \in NonceSeeds :
          /\ ~r1[i].called
          /\ r1' = [r1 EXCEPT ![i] =
                      GenerateRound1Internal(binding, kg.shares[i].key_package, seed)]
    /\ UNCHANGED <<binding, kg, ctx, sh, agg, ver, two, xed, idm>>

\* The coordinator of the JSON binding assembles the package over the
\* commitments of a set S, passed in some order.
CreateSigningPackage ==
    /\ binding = "json"
    /\ kg.ok
    /\ ~ctx.made
    /\ \E S \in SUBSET Committed, m \in Messages, seed \in RandomizerSeeds :
          /\ S # {}
          /\ \E list \in Orders(CommitmentsOf(S)) :
                LET res == CreateSigningPackageInternal(list, m,
                                                        kg.public_key_package, seed)
                IN ctx' = IF res.ok
                          THEN [made |-> TRUE, ok |-> TRUE, signers |-> S,
                                commitments |-> CommitmentsOf(S), message |-> m,
                                signing_package |-> res.signing_package,
                                randomizer |-> res.randomizer]
                          ELSE [made |-> TRUE, ok |-> FALSE, result |-> res]
    /\ UNCHANGED <<binding, kg, r1, sh, agg, ver, two, xed, idm>>

\* The coordinator of the hex binding picks the commitments and the message
\* and calls generate_randomizer() for the randomizer all signers share.
ShareRandomizer ==
    /\ binding = "hex"
    /\ kg.ok
    /\ ~ctx.made
    /\ \E S \in SUBSET Committed, m \in Messages, bytes \in RandomBytes :
          /\ S # {}
          /\ ctx' = [made |-> TRUE, ok |-> TRUE, signers |-> S,
                     commitments |-> CommitmentsOf(S), message |-> m,
                     signing_package |->
                         SigningPackageNew(CommitmentsMap(CommitmentsOf(S)), m),
                     randomizer |-> GenerateRandomizer(bytes)]
    /\ UNCHANGED <<binding, kg, r1, sh, agg, ver, two, xed, idm>>

\* generate_round2_signature of either binding, called with a key package,
\* a nonces record, and a context: the package (JSON) or the commitments
\* list and message (hex), and the randomizer.
GenerateRound2Internal(key_package, nonces, list, message, randomizer) ==
    IF binding = "json"
    THEN GenerateRound2InternalJson(key_package, nonces,
                                    SigningPackageNew(CommitmentsMap(list), message),
                                    randomizer)
    ELSE GenerateRound2InternalHex(key_package, nonces, list, message, randomizer, 0)

\* Participant i signs with its own key package and nonces; "again" records
\* that its nonce pair had already been consumed by an earlier call.  The
\* calls of a ceremony are followed in the order of its data flow: the
\* shares are collected before the aggregator is called.
GenerateRound2Signature ==
    /\ ctx.made /\ ctx.ok
    /\ ~agg.called
    /\ \E i \in Committed, list \in Orders(ctx.commitments) :
          LET res == GenerateRound2Internal(kg.shares[i].key_package, r1[i].nonces,
                                            list, ctx.message, ctx.randomizer)
          IN /\ ~(sh[i].called /\ sh[i].again)
             /\ sh' = [sh EXCEPT ![i] =
                          [called |-> TRUE, ok |-> res.ok, again |-> sh[i].ok,
                           result |-> res]]
    /\ UNCHANGED <<binding, kg, r1, ctx, agg, ver, two, xed, idm>>

\* A variant that drops the commitments no share came in for before it
\* builds the package.
AggregateInternalFiltered(shares_list, commitments_list, message, randomizer) ==
    LET kept == SelectSeq(commitments_list,
                          LAMBDA c : \E k \in 1 .. Len(shares_list) :
                                        shares_list[k].identifier = c.identifier)
    IN IF binding = "json"
       THEN AggregateInternalJson(shares_list,
                                  SigningPackageNew(CommitmentsMap(kept), message),
                                  kg.public_key_package, randomizer)
       ELSE AggregateInternalHex(shares_list, kept, message,
                                 kg.public_key_package, randomizer)

\* aggregate_signature of either binding.
AggregateInternal(shares_list, commitments_list, message, randomizer) ==
    IF binding = "json"
    THEN AggregateInternalJson(shares_list,
                               SigningPackageNew(CommitmentsMap(commitments_list), message),
                               kg.public_key_package, randomizer)
    ELSE AggregateInternalHex(shares_list, commitments_list, message,
                              kg.public_key_package, randomizer)

\* One bit of an encoding flipped.
FlipBit(b, bit) ==
    IF (b \div (2 ^ bit)) % 2 = 1 THEN b - 2 ^ bit ELSE b + 2 ^ bit

\* The list with the record of wire identifier w replaced by rec.
ReplaceShare(list, w, rec) ==
    [k \in 1 .. Len(list) |-> IF list[k].identifier = w THEN rec ELSE list[k]]

\* The list with bit b of the share labelled w and bit b2 of the share
\* labelled w2 flipped.
FlipTwo(list, w, b, w2, b2) ==
    [n \in 1 .. Len(list) |->
        IF list[n].identifier = w
        THEN [list[n] EXCEPT !.share = FlipBit(list[n].share, b)]
        ELSE IF list[n].identifier = w2
        THEN [list[n] EXCEPT !.share = FlipBit(list[n].share, b2)]
        ELSE list[n]]

\* What key holder k returns when it signs in the place of j: the context
\* over the signers with j left out and k put in.
ForeignShare(j, k) ==
    GenerateRound2Internal(kg.shares[k].key_package, r1[k].nonces,
                           CommitmentsOf((ctx.signers \ {j}) \cup {k}),
                           ctx.message, ctx.randomizer)

\* What the aggregator is called with:
\*   honest   - the shares of some of the signers, the context's package;
\*   flip     - the signers' shares with one bit of j's share flipped;
\*   subst    - the signers' shares with j's replaced by one that key holder
\*              k, not in the package, produced (labelled j or k);
\*   otherset - shares produced for the context, with the package over
\*              another set of committed participants;
\*   flip2    - the signers' shares with one bit of j's share and one bit of
\*              k's share flipped, j < k.
AggInputs ==
    LET honest == {[kind |-> "honest", j |-> 0, k |-> 0, bit |-> 0,
                    set |-> ctx.signers, shares |-> SharesOf(T)] :
                       T \in SUBSET Signed \ {{}}}
        flip == {[kind |-> "flip", j |-> j, k |-> 0, bit |-> b,
                  set |-> ctx.signers,
                  shares |-> ReplaceShare(SharesOf(Signed), sh[j].result.identifier,
                                 [identifier |-> sh[j].result.identifier,
                                  share |-> FlipBit(sh[j].result.share, b)])] :
                     j \in Signed, b \in FlipBits}
        subst == {[kind |-> "subst", j |-> x[1], k |-> x[2], bit |-> 0,
                   set |-> ctx.signers,
                   shares |-> ReplaceShare(SharesOf(Signed),
                                  sh[x[1]].result.identifier,
                                  [identifier |-> IF x[3] THEN sh[x[1]].result.identifier
                                                  ELSE ForeignShare(x[1], x[2]).identifier,
                                   share |-> ForeignShare(x[1], x[2]).share])] :
                      x \in {y \in Signed \X (Committed \ ctx.signers) \X BOOLEAN :
                                ForeignShare(y[1], y[2]).ok}}
        otherset == {[kind |-> "otherset", j |-> 0, k |-> 0, bit |-> 0,
                      set |-> x[1], shares |-> SharesOf(x[2])] :
                         x \in {y \in (SUBSET Committed) \X (SUBSET Signed) :
                                   /\ y[1] # {} /\ y[1] # ctx.signers
                                   /\ y[2] # {}
                                   /\ y[2] \in {Signed, Signed \cap y[1]}}}
        flip2 == {[kind |-> "flip2", j |-> x[1], k |-> x[2], bit |-> x[3],
                   bit2 |-> x[4], set |-> ctx.signers,
                   shares |-> FlipTwo(SharesOf(Signed), sh[x[1]].result.identifier,
                                      x[3], sh[x[2]].result.identifier, x[4])] :
                      x \in {y \in Signed \X Signed \X FlipBits \X FlipBits :
                                y[1] < y[2]}}
    IN honest \cup flip \cup subst \cup otherset \cup flip2

\* The aggregator is called once the shares are in; "reversed" records that
\* the caller passed both lists in descending order of identifier.
AggregateSignature ==
    /\ ctx.made /\ ctx.ok
    /\ ~agg.called
    /\ \E inp \in AggInputs, reversed \in BOOLEAN :
          /\ reversed => Len(inp.shares) > 1 \/ Cardinality(inp.set) > 1
          /\ agg' = [called |-> TRUE, kind |-> inp.kind, j |-> inp.j, k |-> inp.k,
                     bit |-> inp.bit,
                     bit2 |-> IF inp.kind = "flip2" THEN inp.bit2 ELSE 0, set |-> inp.set, shares |-> inp.shares,
                     reversed |-> reversed,
                     result |-> AggregateInternal(
                                   InOrder(inp.shares, reversed),
                                   InOrder(CommitmentsOf(inp.set), reversed),
                                   ctx.message, ctx.randomizer)]
    /\ UNCHANGED <<binding, kg, r1, ctx, sh, ver, two, xed, idm>>

\* A variant whose match maps the verification error to Ok(true) as well.
VerifyInternalAlwaysValid(signature, message, group_public_key, randomizer) ==
    LET res == IF binding = "json"
               THEN VerifyInternalJson(signature, message, group_public_key, randomizer)
               ELSE VerifyInternalHex(signature, message, group_public_key, randomizer)
    IN IF res.ok THEN [res EXCEPT !.valid = TRUE] ELSE res

\* verify_signature of either binding.
VerifyInternal(signature, message, group_public_key, randomizer) ==
    IF binding = "json"
    THEN VerifyInternalJson(signature, message, group_public_key, randomizer)
    ELSE VerifyInternalHex(signature, message, group_public_key, randomizer)

\* The randomizers a verifier may hold: the one the coordinator shared, or
\* an independently sampled one (another create_signing_package draw over
\* the same package, or another generate_randomizer() call).
VerifyRandomizers ==
    IF binding = "json"
    THEN {RandomizerNew(seed, ctx.signing_package) : seed \in RandomizerSeeds}
    ELSE {GenerateRandomizer(bytes) : bytes \in RandomBytes}

\* What verify_signature is called with:
\*   asis       - the aggregated signature and the group key as returned, a
\*                message and a randomizer the verifier holds;
\*   signature, key, randomizer - the ceremony's values with that one input
\*                in a non-canonical encoding;
\*   message    - the ceremony's values with a message that is not hex.
VerifyInputs ==
    LET sig == agg.result.signature
        asis == {[kind |-> "asis", signature |-> sig, message |-> m,
                  group_public_key |-> kg.group_public_key, randomizer |-> rz] :
                    m \in Messages, rz \in VerifyRandomizers}
        own == [kind |-> "asis", signature |-> sig, message |-> ctx.message,
                group_public_key |-> kg.group_public_key,
                randomizer |-> ctx.randomizer]
    IN asis \cup
       { [own EXCEPT !.kind = "signature",
                     !.signature = [sig EXCEPT !.z = NonCanonical(sig.z)]],
         [own EXCEPT !.kind = "key",
                     !.group_public_key = NonCanonical(kg.group_public_key)],
         [own EXCEPT !.kind = "randomizer",
                     !.randomizer = NonCanonical(ctx.randomizer)],
         [own EXCEPT !.kind = "message", !.message = NotHex] }

\* Anyone verifies the aggregated signature against the group key.
VerifySignature ==
    /\ agg.called /\ agg.result.ok
    /\ ~ver.called
    /\ \E inp \in VerifyInputs :
          ver' = [called |-> TRUE, kind |-> inp.kind, signature |-> inp.signature,
                  message |-> inp.message,
                  group_public_key |-> inp.group_public_key,
                  randomizer |-> inp.randomizer,
                  result |-> VerifyInternal(inp.signature, inp.message,
                                            inp.group_public_key, inp.randomizer)]
    /\ UNCHANGED <<binding, kg, r1, ctx, sh, agg, two, xed, idm>>

Next ==
    \/ GenerateKeyShares
    \/ GenerateRound1Commitment
    \/ CreateSigningPackage
    \/ ShareRandomizer
    \/ GenerateRound2Signature
    \/ AggregateSignature
    \/ VerifySignature

Spec == Init /\ [][Next]_vars

\* ------------------------------------------- callers outside the data flow
\* The wrappers keep no state and take every value from the caller, so they
\* can be called with lists whose identifiers are out of range, and again
\* after an error.  A second specification follows such callers.
MaxCalls == 2
OutOfRange == {0, MaxTotal + 1}

\* The wire list with the identifier of record k set to w.
Relabel(list, k, w) == [list EXCEPT ![k].identifier = w]

\* A wire list as returned, or with its last record relabelled out of range.
WireLists(list) == {list} \cup {Relabel(list, Len(list), w) : w \in OutOfRange}

HasOutOfRange(list) ==
    \E k \in 1 .. Len(list) : list[k].identifier = 0 \/ list[k].identifier > MaxTotal

\* create_signing_package (JSON binding) over any such list; the ceremony
\* goes on from a package over the list as returned by round 1.
CreateSigningPackageAnyList ==
    /\ binding = "json"
    /\ kg.ok
    /\ ~ctx.made
    /\ \E S \in SUBSET Committed, m \in Messages, seed \in RandomizerSeeds :
          /\ S # {}
          /\ \E list \in WireLists(CommitmentsOf(S)) :
                LET res == CreateSigningPackageInternal(list, m,
                                                        kg.public_key_package, seed)
                IN ctx' = IF res.ok /\ list = CommitmentsOf(S)
                          THEN [made |-> TRUE, ok |-> TRUE, signers |-> S,
                                commitments |-> CommitmentsOf(S), message |-> m,
                                signing_package |-> res.signing_package,
                                randomizer |-> res.randomizer,
                                list |-> list, result |-> res]
                          ELSE [made |-> TRUE, ok |-> FALSE,
                                list |-> list, result |-> res]
    /\ UNCHANGED <<binding, kg, r1, sh, agg, ver, two, xed, idm>>

\* What participant i may pass to round 2: the context as shared; the
\* commitments of the other signers only; (hex binding, which decodes the
\* wire list itself) the list with an identifier out of range; or the
\* context with the randomizer in a non-canonical encoding.
Round2Inputs(i) ==
    LET others == ctx.signers \ {i}
        lists == {ctx.commitments}
                   \cup (IF others = {} THEN {} ELSE {CommitmentsOf(others)})
                   \cup (IF binding = "hex" THEN WireLists(ctx.commitments) ELSE {})
    IN {[list |-> l, randomizer |-> ctx.randomizer] : l \in lists}
         \cup {[list |-> ctx.commitments, randomizer |-> NonCanonical(ctx.randomizer)]}

Calls(i) == IF sh[i].called THEN sh[i].calls ELSE 0
HasFailed(i) == sh[i].called /\ (sh[i].failed \/ ~sh[i].ok)

\* generate_round2_signature called by participant i with its key package
\* and its nonce pair, up to MaxCalls times; "failed" records that an
\* earlier call with this nonce pair returned an error.  The ceremonies
\* followed are those where the calls of at most one participant fail.
GenerateRound2SignatureAnyInput ==
    /\ ctx.made /\ ctx.ok
    /\ ~agg.called
    /\ \E i \in Committed :
          /\ Calls(i) < MaxCalls
          /\ \E inp \in Round2Inputs(i) :
                LET res == GenerateRound2Internal(kg.shares[i].key_package,
                                                  r1[i].nonces, inp.list,
                                                  ctx.message, inp.randomizer)
                IN /\ res.ok \/ \A j \in Participants \ {i} : ~HasFailed(j)
                   /\ sh' = [sh EXCEPT ![i] =
                            [called |-> TRUE, ok |-> res.ok, again |-> sh[i].ok,
                             failed |-> HasFailed(i), calls |-> Calls(i) + 1,
                             list |-> inp.list, randomizer |-> inp.randomizer,
                             result |-> res]]
    /\ UNCHANGED <<binding, kg, r1, ctx, agg, ver, two, xed, idm>>

\* aggregate_signature once every signer has returned a share, either list
\* possibly with an identifier out of range (the JSON binding takes the
\* package as returned, not a wire list of commitments).
AggregateSignatureAnyList ==
    /\ AllSigned
    /\ ~agg.called
    /\ \E shares \in WireLists(SharesOf(Signed)) :
          \E commitments \in IF binding = "hex" THEN WireLists(ctx.commitments)
                                                ELSE {ctx.commitments} :
             agg' = [called |-> TRUE, shares |-> shares, commitments |-> commitments,
                     result |-> AggregateInternal(shares, commitments,
                                                  ctx.message, ctx.randomizer)]
    /\ UNCHANGED <<binding, kg, r1, ctx, sh, ver, two, xed, idm>>

NextCallers ==
    \/ GenerateKeyShares
    \/ GenerateRound1Commitment
    \/ CreateSigningPackageAnyList
    \/ ShareRandomizer
    \/ GenerateRound2SignatureAnyInput
    \/ AggregateSignatureAnyList

SpecCallers == Init /\ [][NextCallers]_vars

\* ------------------------------------------- lists with a duplicate record
\* A ceremony where the callers may pass a commitments list or a shares list
\* that has two records for one identifier.

\* The wire list with one more record: what the last record carries, under
\* the identifier of the first.
Duplicated(list) ==
    Append(list, [list[Len(list)] EXCEPT !.identifier = list[1].identifier])

\* A wire list with two records of the same identifier.
HasDuplicate(list) ==
    \E j, k \in 1 .. Len(list) : j < k /\ list[j].identifier = list[k].identifier

\* A wire list as returned, or with a second record for its first identifier.
ListsWithDuplicate(list) == {list, Duplicated(list)}

\* create_signing_package (JSON binding) over such a list; the ceremony goes
\* on from a package over the list as returned by round 1.
CreateSigningPackageDuplicate ==
    /\ binding = "json"
    /\ kg.ok
    /\ ~ctx.made
    /\ \E S \in SUBSET Committed, m \in Messages, seed \in RandomizerSeeds :
          /\ S # {}
          /\ \E list \in ListsWithDuplicate(CommitmentsOf(S)) :
                LET res == CreateSigningPackageInternal(list, m,
                                                        kg.public_key_package, seed)
                IN ctx' = IF list = CommitmentsOf(S)
                          THEN [made |-> TRUE, ok |-> TRUE, signers |-> S,
                                commitments |-> CommitmentsOf(S), message |-> m,
                                signing_package |-> res.signing_package,
                                randomizer |-> res.randomizer,
                                list |-> list, result |-> res]
                          ELSE [made |-> TRUE, ok |-> FALSE,
                                list |-> list, result |-> res]
    /\ UNCHANGED <<binding, kg, r1, sh, agg, ver, two, xed, idm>>

\* generate_round2_signature by a signer of the context; the hex binding
\* decodes the commitments list itself.
GenerateRound2SignatureDuplicate ==
    /\ ctx.made /\ ctx.ok
    /\ ~agg.called
    /\ \E i \in ctx.signers :
          /\ ~sh[i].called
          /\ \E list \in IF binding = "hex" THEN ListsWithDuplicate(ctx.commitments)
                                            ELSE {ctx.commitments} :
                LET res == GenerateRound2Internal(kg.shares[i].key_package,
                                                  r1[i].nonces, list,
                                                  ctx.message, ctx.randomizer)
                IN sh' = [sh EXCEPT ![i] =
                            [called |-> TRUE, ok |-> res.ok, list |-> list,
                             randomizer |-> ctx.randomizer, result |-> res]]
    /\ UNCHANGED <<binding, kg, r1, ctx, agg, ver, two, xed, idm>>

\* aggregate_signature once every signer has returned a share (the JSON
\* binding takes the package as returned, not a wire list of commitments).
AggregateSignatureDuplicate ==
    /\ AllSigned
    /\ ~agg.called
    /\ \E shares \in ListsWithDuplicate(SharesOf(Signed)) :
          \E commitments \in IF binding = "hex" THEN ListsWithDuplicate(ctx.commitments)
                                                ELSE {ctx.commitments} :
             agg' = [called |-> TRUE, shares |-> shares, commitments |-> commitments,
                     result |-> AggregateInternal(shares, commitments,
                                                  ctx.message, ctx.randomizer)]
    /\ UNCHANGED <<binding, kg, r1, ctx, sh, ver, two, xed, idm>>

NextLists ==
    \/ GenerateKeyShares
    \/ GenerateRound1Commitment
    \/ CreateSigningPackageDuplicate
    \/ ShareRandomizer
    \/ GenerateRound2SignatureDuplicate
    \/ AggregateSignatureDuplicate

SpecLists == Init /\ [][NextLists]_vars

\* ------------------------------------- callers with their own randomizer
\* A ceremony where a signer may pass another randomizer than the one the
\* coordinator shared, or (hex binding) an empty one, or a nonces record
\* labelled with another identifier, and where the aggregator and the
\* verifier may pass another or an empty randomizer.

\* What OsRng may yield when randomizer_hex is empty.
EmptyDraws == {1234, 20011, Q + 3}

\* generate_round2_internal of either binding, with the bytes OsRng yields.
GenerateRound2InternalRng(key_package, nonces, list, message, randomizer, rng_bytes) ==
    IF binding = "json"
    THEN GenerateRound2InternalJson(key_package, nonces,
                                    SigningPackageNew(CommitmentsMap(list), message),
                                    randomizer)
    ELSE GenerateRound2InternalHex(key_package, nonces, list, message, randomizer,
                                   rng_bytes)

\* The well-formed randomizers other than the one the coordinator shared.
OtherRandomizers ==
    {rz \in VerifyRandomizers : rz # ctx.randomizer /\ ScalarCanonical(rz)}

\* Another participant's number.
OtherLabel(i) == (i % MaxN) + 1

\* What signer i may pass to round 2.
SignerInputs(i) ==
    LET own == [nonces |-> r1[i].nonces, randomizer |-> ctx.randomizer, rng |-> 0]
    IN {own, [own EXCEPT !.nonces.identifier = OtherLabel(i)]}
         \cup {[own EXCEPT !.randomizer = rz] : rz \in OtherRandomizers}
         \cup (IF binding = "hex"
               THEN {[own EXCEPT !.randomizer = EmptyHex, !.rng = b] : b \in EmptyDraws}
               ELSE {})

\* generate_round2_signature by a signer of the context; "used" is the
\* randomizer the share is produced under.
GenerateRound2SignatureAnyRandomizer ==
    /\ ctx.made /\ ctx.ok
    /\ ~agg.called
    /\ \E i \in ctx.signers :
          /\ ~sh[i].called
          /\ \E inp \in SignerInputs(i) :
                LET res == GenerateRound2InternalRng(kg.shares[i].key_package,
                               inp.nonces, ctx.commitments, ctx.message,
                               inp.randomizer, inp.rng)
                IN sh' = [sh EXCEPT ![i] =
                            [called |-> TRUE, ok |-> res.ok, nonces |-> inp.nonces,
                             randomizer |-> inp.randomizer,
                             used |-> IF inp.randomizer = EmptyHex THEN inp.rng
                                      ELSE inp.randomizer,
                             result |-> res]]
    /\ UNCHANGED <<binding, kg, r1, ctx, agg, ver, two, xed, idm>>

\* aggregate_signature over the shares of all signers with the randomizer
\* the aggregator holds.
AggregateSignatureAnyRandomizer ==
    /\ AllSigned
    /\ ~agg.called
    /\ \E rz \in {ctx.randomizer} \cup OtherRandomizers
                   \cup (IF binding = "hex" THEN {EmptyHex} ELSE {}) :
          agg' = [called |-> TRUE, shares |-> SharesOf(ctx.signers),
                  randomizer |-> rz,
                  result |-> AggregateInternal(SharesOf(ctx.signers), ctx.commitments,
                                               ctx.message, rz)]
    /\ UNCHANGED <<binding, kg, r1, ctx, sh, ver, two, xed, idm>>

\* verify_signature of the aggregated signature with the aggregator's
\* randomizer or (hex binding) an empty one.
VerifySignatureAnyRandomizer ==
    /\ agg.called /\ agg.result.ok
    /\ ~ver.called
    /\ \E rz \in {agg.randomizer} \cup (IF binding = "hex" THEN {EmptyHex} ELSE {}) :
          ver' = [called |-> TRUE, randomizer |-> rz,
                  result |-> VerifyInternal(agg.result.signature, ctx.message,
                                            kg.group_public_key, rz)]
    /\ UNCHANGED <<binding, kg, r1, ctx, sh, agg, two, xed, idm>>

NextSigners ==
    \/ GenerateKeyShares
    \/ GenerateRound1Commitment
    \/ CreateSigningPackage
    \/ ShareRandomizer
    \/ GenerateRound2SignatureAnyRandomizer
    \/ AggregateSignatureAnyRandomizer
    \/ VerifySignatureAnyRandomizer

SpecSigners == Init /\ [][NextSigners]_vars

\* ------------------------------------------- two ceremonies side by side
\* Two independent ceremonies, each over its own (2, 2) key set and its own
\* message, calling the same library in any interleaving.  Every call takes
\* its inputs from its own ceremony's earlier results and its randomness
\* from OsRng.
TwoKeySet == <<2, 2>>
CeremonyMessage(c) == SortedSeq(Messages)[c]

\* What OsRng yields for call number op of ceremony c.
Draw(c, op) == 10 * c + op

\* A variant where the generator is a counter the library keeps across calls.
OsRngCounter(seed) == seed + two.calls

\* let mut rng = OsRng: the operating system's generator; nothing of the
\* library's enters the draw.
OsRng(seed) == seed

\* The steps of one ceremony as functions of its earlier results and the
\* values drawn.
KeygenStep(seed) ==
    GenerateKeySharesInternal(binding, TwoKeySet[1], TwoKeySet[2], seed)
Round1Step(kgres, i, seed) ==
    GenerateRound1Internal(binding, kgres.shares[i].key_package, seed)
PackageStep(kgres, r1res, m, seed) ==
    LET list == <<r1res[1].commitment, r1res[2].commitment>>
        res == CreateSigningPackageInternal(list, m, kgres.public_key_package, seed)
    IN [made |-> TRUE, ok |-> TRUE, commitments |-> list, message |-> m,
        randomizer |-> IF binding = "json" THEN res.randomizer
                       ELSE GenerateRandomizer(1000 + seed)]
Round2Step(kgres, r1res, c, i) ==
    GenerateRound2Internal(kgres.shares[i].key_package, r1res[i].nonces,
                           c.commitments, c.message, c.randomizer)
AggregateStep(kgres, c, shres) ==
    LET shares == [i \in 1 .. 2 |-> [identifier |-> shres[i].identifier,
                                     share |-> shres[i].share]]
    IN IF binding = "json"
       THEN AggregateInternalJson(shares,
                SigningPackageNew(CommitmentsMap(c.commitments), c.message),
                kgres.public_key_package, c.randomizer)
       ELSE AggregateInternalHex(shares, c.commitments, c.message,
                                 kgres.public_key_package, c.randomizer)
VerifyStep(kgres, c, aggres) ==
    VerifyInternal(aggres.signature, c.message, kgres.group_public_key, c.randomizer)

\* The record of ceremony c after one more call that set field f to v.
AfterCall(c, f, v) ==
    [calls |-> two.calls + 1,
     cer |-> [two.cer EXCEPT ![c] = [two.cer[c] EXCEPT ![f] = v]]]

TwoGenerateKeyShares ==
    /\ \E c \in Ceremonies :
          /\ ~two.cer[c].kg.called
          /\ two' = AfterCall(c, "kg", KeygenStep(OsRng(Draw(c, 0))))
    /\ UNCHANGED <<binding, kg, r1, ctx, sh, agg, ver, xed, idm>>

TwoGenerateRound1Commitment ==
    /\ \E c \in Ceremonies, i \in 1 .. 2 :
          LET s == two.cer[c]
          IN /\ s.kg.called /\ s.kg.ok
             /\ ~s.r1[i].called
             /\ two' = AfterCall(c, "r1",
                          [s.r1 EXCEPT ![i] = Round1Step(s.kg, i, OsRng(Draw(c, i)))])
    /\ UNCHANGED <<binding, kg, r1, ctx, sh, agg, ver, xed, idm>>

TwoCreateSigningPackage ==
    /\ \E c \in Ceremonies :
          LET s == two.cer[c]
          IN /\ s.r1[1].ok /\ s.r1[2].ok
             /\ ~s.ctx.made
             /\ two' = AfterCall(c, "ctx",
                          PackageStep(s.kg, s.r1, CeremonyMessage(c), OsRng(Draw(c, 3))))
    /\ UNCHANGED <<binding, kg, r1, ctx, sh, agg, ver, xed, idm>>

\* The coordinator of the JSON binding calls create_signing_package once
\* more with the arguments of its first call; OsRng yields the same or
\* another value.
TwoCreateSigningPackageAgain ==
    /\ binding = "json"
    /\ \E c \in Ceremonies, op \in {3, 4} :
          LET s == two.cer[c]
          IN /\ s.ctx.made
             /\ ~s.again.called
             /\ two' = AfterCall(c, "again",
                          CreateSigningPackageInternal(s.ctx.commitments,
                              s.ctx.message, s.kg.public_key_package,
                              OsRng(Draw(c, op))))
    /\ UNCHANGED <<binding, kg, r1, ctx, sh, agg, ver, xed, idm>>

TwoGenerateRound2Signature ==
    /\ \E c \in Ceremonies, i \in 1 .. 2 :
          LET s == two.cer[c]
          IN /\ s.ctx.made
             /\ ~s.sh[i].called
             /\ two' = AfterCall(c, "sh",
                          [s.sh EXCEPT ![i] = Round2Step(s.kg, s.r1, s.ctx, i)])
    /\ UNCHANGED <<binding, kg, r1, ctx, sh, agg, ver, xed, idm>>

TwoAggregateSignature ==
    /\ \E c \in Ceremonies :
          LET s == two.cer[c]
          IN /\ s.sh[1].ok /\ s.sh[2].ok
             /\ ~s.agg.called
             /\ two' = AfterCall(c, "agg", AggregateStep(s.kg, s.ctx, s.sh))
    /\ UNCHANGED <<binding, kg, r1, ctx, sh, agg, ver, xed, idm>>

TwoVerifySignature ==
    /\ \E c \in Ceremonies :
          LET s == two.cer[c]
          IN /\ s.agg.called /\ s.agg.ok
             /\ ~s.ver.called
             /\ two' = AfterCall(c, "ver", VerifyStep(s.kg, s.ctx, s.agg))
    /\ UNCHANGED <<binding, kg, r1, ctx, sh, agg, ver, xed, idm>>

NextTwo ==
    \/ TwoGenerateKeyShares
    \/ TwoGenerateRound1Commitment
    \/ TwoCreateSigningPackage
    \/ TwoCreateSigningPackageAgain
    \/ TwoGenerateRound2Signature
    \/ TwoAggregateSignature
    \/ TwoVerifySignature

SpecTwo == Init /\ [][NextTwo]_vars

\* --------------------------------------------------- XEdDSA crate calls
\* A host generates a keypair, derives the public key again, signs a
\* message and verifies; each call may also be given byte strings of
\* another length, another message, or a signature with one bit changed.
XedSeeds == {5, 6, 77, 1234}
XedNonces == {8, 9}

\* A byte string as returned, one byte shorter, or one byte longer.
Lengths(b) == {b, [b EXCEPT !.len = b.len - 1], [b EXCEPT !.len = b.len + 1]}

GenerateKeypair ==
    /\ ~xed.kp.called
    /\ \E seed \in XedSeeds : xed' = [xed EXCEPT !.kp = GenerateKeypairFrom(seed)]
    /\ UNCHANGED <<binding, kg, r1, ctx, sh, agg, ver, two, idm>>

GetPublicKey ==
    /\ xed.kp.called
    /\ ~xed.pub.called
    /\ \E key \in Lengths(xed.kp.private_key) :
          xed' = [xed EXCEPT !.pub = [private_key |-> key] @@ GetPublicKeyOf(key)]
    /\ UNCHANGED <<binding, kg, r1, ctx, sh, agg, ver, two, idm>>

Sign ==
    /\ xed.kp.called
    /\ ~xed.sig.called
    /\ \E key \in Lengths(xed.kp.private_key), m \in Messages, z \in XedNonces :
          xed' = [xed EXCEPT !.sig = [private_key |-> key, message |-> m]
                                        @@ SignWith(key, m, z)]
    /\ UNCHANGED <<binding, kg, r1, ctx, sh, agg, ver, two, idm>>

\* What verify is called with: the signature as returned, of another
\* length, or with the lowest bit of s changed; the public key as returned
\* or of another length; either message.
Verify ==
    /\ xed.sig.called /\ xed.sig.ok
    /\ ~xed.ver.called
    /\ \E key \in Lengths(xed.kp.public_key), m \in Messages,
          sig \in Lengths(xed.sig.value)
                    \cup {[xed.sig.value EXCEPT !.s = FlipBit(xed.sig.value.s, 0)]} :
          xed' = [xed EXCEPT !.ver = [public_key |-> key, message |-> m,
                                      signature |-> sig]
                                        @@ VerifyWith(key, m, sig)]
    /\ UNCHANGED <<binding, kg, r1, ctx, sh, agg, ver, two, idm>>

NextXed ==
    \/ GenerateKeypair
    \/ GetPublicKey
    \/ Sign
    \/ Verify

SpecXed == Init /\ [][NextXed]_vars

\* ------------------------------------------------ identifier conversions
\* The wire identifiers converted: zero, identifiers a key generation of the
\* wrappers hands out, and 16-bit numbers above 255.
WireIdentifiers == {0, 1, 2, 3, 254, MaxTotal, MaxTotal + 1, MaxTotal + 2, 513, 4097}

\* A wire identifier decoded with Identifier::try_from and, when accepted,
\* reported the way the binding reports the identifier of a share.
ConvertIdentifier(w) ==
    IF ~IdentifierTryFromOk(w)
    THEN [called |-> TRUE, ok |-> FALSE, wire |-> w]
    ELSE [called |-> TRUE, ok |-> TRUE, wire |-> w,
          reported |-> IdNum(binding, IdentifierTryFrom(w))]

ConvertFirst ==
    /\ ~idm.first.called
    /\ \E w \in WireIdentifiers : idm' = [idm EXCEPT !.first = ConvertIdentifier(w)]
    /\ UNCHANGED <<binding, kg, r1, ctx, sh, agg, ver, two, xed>>

ConvertSecond ==
    /\ idm.first.called
    /\ ~idm.second.called
    /\ \E w \in WireIdentifiers : idm' = [idm EXCEPT !.second = ConvertIdentifier(w)]
    /\ UNCHANGED <<binding, kg, r1, ctx, sh, agg, ver, two, xed>>

NextCodec ==
    \/ ConvertFirst
    \/ ConvertSecond

SpecCodec == Init /\ [][NextCodec]_vars

\* ---------------------------------------------------------------- claims
\* The ceremony the claims speak of: the aggregator was given the shares of
\* all the signers of the context, unaltered, with the context's package.
HonestAggregation ==
    /\ agg.called /\ agg.kind = "honest"
    /\ AllSigned /\ agg.shares = SharesOf(ctx.signers)

\* What the aggregator returns for the unaltered shares of all who signed.
HonestResult ==
    AggregateInternal(SharesOf(Signed), ctx.commitments, ctx.message, ctx.randomizer)

\* C1 (completeness): with t <= |S|, every step of the ceremony over S
\* succeeds: each member's round 2 returns a share, the aggregation of all
\* their shares returns a signature, and verification of it over the same
\* message and randomizer returns valid = true.
C1_Completeness ==
    (ctx.made /\ ctx.ok /\ Cardinality(ctx.signers) >= kg.threshold) =>
        /\ \A i \in ctx.signers : sh[i].called => sh[i].ok
        /\ HonestAggregation => agg.result.ok
        /\ (HonestAggregation /\ ver.called /\ ver.kind = "asis"
               /\ ver.message = ctx.message /\ ver.randomizer = ctx.randomizer)
             => ver.result.ok /\ ver.result.valid

\* The same statement where the shared randomizer is a canonical scalar
\* encoding (always so under the JSON binding).
CompletenessCanonical ==
    (ctx.made /\ ctx.ok /\ ScalarCanonical(ctx.randomizer)) => C1_Completeness

CompletenessReached ==
    /\ HonestAggregation /\ Cardinality(ctx.signers) >= 2
    /\ ver.called /\ ver.kind = "asis" /\ ver.message = ctx.message /\ ver.randomizer = ctx.randomizer
    /\ ver.result.ok /\ ver.result.valid

\* C2 (threshold): when fewer than t distinct key packages have produced a
\* round-2 share for the ceremony, the aggregator returns no signature at
\* all, whatever shares and package it is given; so none that verifies.
C2_Threshold ==
    (agg.called /\ Cardinality(Signed) < kg.threshold) => ~agg.result.ok

C2_Witness ==
    /\ agg.called /\ Signed # {} /\ Cardinality(Signed) < kg.threshold
    /\ agg.set = Signed /\ agg.shares = SharesOf(Signed)
    /\ ~agg.result.ok

\* C3 (nonce single-use): a second round-2 call with a nonce pair that an
\* earlier call already consumed returns the error NONCE_ALREADY_USED and
\* no share.
C3_NonceSingleUse ==
    \A i \in Participants :
        (sh[i].called /\ sh[i].again) =>
            ~sh[i].ok /\ sh[i].result.code = "NONCE_ALREADY_USED"

\* C4 (aggregator soundness): every signature the aggregator returns
\* verifies under the randomized group key; and when the shares are
\* well-formed but the final verification fails, it returns the error
\* INVALID_SIGNATURE (a bad share being reported apart).
AggVerificationFailed ==
    agg.called /\ ~agg.result.ok
        /\ agg.result.message \in {"InvalidSignature", "InvalidSignatureShare"}

C4_AggregatorSoundness ==
    /\ (agg.called /\ agg.result.ok) =>
          LET v == VerifyInternal(agg.result.signature, ctx.message,
                                  kg.group_public_key, ctx.randomizer)
          IN v.ok /\ v.valid
    /\ AggVerificationFailed =>
          agg.result.code \in {"INVALID_SIGNATURE", "INVALID_SIGNATURE_SHARE"}

\* The half of C4 that speaks of success alone.
ReturnedSignatureVerifies ==
    (agg.called /\ agg.result.ok) =>
        LET v == VerifyInternal(agg.result.signature, ctx.message,
                                kg.group_public_key, ctx.randomizer)
        IN v.ok /\ v.valid

\* C5 (tamper detection): with shares that aggregate successfully, flipping
\* any one bit of the share of signer j makes the aggregator return the
\* error INVALID_SIGNATURE_SHARE naming j.
C5_TamperDetection ==
    (agg.called /\ agg.kind = "flip" /\ HonestResult.ok) =>
        /\ ~agg.result.ok
        /\ agg.result.code = "INVALID_SIGNATURE_SHARE"
        /\ agg.result.culprit = IdentifierTryFrom(sh[agg.j].result.identifier)

\* C6 (message binding): a signature produced for the message m does not
\* verify for another message under the same key and randomizer.
C6_MessageBinding ==
    (ver.called /\ ver.kind = "asis" /\ HonestAggregation
        /\ ver.message # ctx.message /\ ver.randomizer = ctx.randomizer)
      => ~(ver.result.ok /\ ver.result.valid)

C6_Witness ==
    /\ ver.called /\ ver.kind = "asis" /\ HonestAggregation
    /\ ver.message # ctx.message /\ ver.randomizer = ctx.randomizer
    /\ ver.result.ok /\ ~ver.result.valid

\* C7 (rerandomization): a signature produced under the randomizer a1 is
\* accepted by verification with a1, and verification with an independently
\* sampled a2 # a1 returns valid = false.
C7_Rerandomization ==
    (ver.called /\ ver.kind = "asis" /\ HonestAggregation
        /\ ver.message = ctx.message) =>
        /\ ver.result.ok
        /\ ver.result.valid <=> (ver.randomizer = ctx.randomizer)

\* C8 (subset binding): shares produced for the package over S are rejected
\* by an aggregation whose package is over another set: an error, and no
\* signature.
C8_SubsetBinding ==
    (agg.called /\ agg.kind = "otherset") => ~agg.result.ok

C8_Witness ==
    /\ agg.called /\ agg.kind = "otherset" /\ AllSigned
    /\ Cardinality(ctx.signers) >= kg.threshold
    /\ ~agg.result.ok /\ agg.result.message = "InvalidSignatureShare"

\* C9 (foreign-share substitution): with the share of j replaced by one that
\* key holder k, not in the package, produced, the aggregator returns no
\* signature: it fails with INVALID_SIGNATURE_SHARE naming j or k, or with
\* IDENTIFIER_SET_MISMATCH.
C9_ForeignShare ==
    (agg.called /\ agg.kind = "subst") =>
        /\ ~agg.result.ok
        /\ \/ /\ agg.result.code = "INVALID_SIGNATURE_SHARE"
              /\ agg.result.culprit \in
                    {IdentifierTryFrom(kg.shares[agg.j].identifier),
                     IdentifierTryFrom(kg.shares[agg.k].identifier)}
           \/ agg.result.code = "IDENTIFIER_SET_MISMATCH"

\* That no signature comes back in the case of C9.
ForeignShareNeverAggregates ==
    (agg.called /\ agg.kind = "subst") => ~agg.result.ok

\* C10 (identifier invariance): the order in which the commitments and the
\* shares are passed changes nothing: the package, every share and the
\* aggregator's result are those of the lists in ascending order.
C10_IdentifierInvariance ==
    /\ (ctx.made /\ ctx.ok) =>
          ctx.signing_package =
              SigningPackageNew(CommitmentsMap(ctx.commitments), ctx.message)
    /\ \A i \in Participants :
          sh[i].called =>
              sh[i].result =
                  GenerateRound2Internal(kg.shares[i].key_package, r1[i].nonces,
                                         ctx.commitments, ctx.message, ctx.randomizer)
    /\ agg.called =>
          agg.result = AggregateInternal(agg.shares, CommitmentsOf(agg.set),
                                         ctx.message, ctx.randomizer)

C10_Witness ==
    /\ agg.called /\ agg.reversed /\ agg.kind = "honest"
    /\ Cardinality(agg.set) >= 2 /\ Len(agg.shares) >= 2
    /\ agg.result.ok

\* C11 (keygen input validation): generate_key_shares(t, n) returns the
\* error code INVALID_THRESHOLD when t = 0 or t > n, and TOO_MANY_PARTICIPANTS
\* when n > 255; no shares and no group key come back.
C11_KeygenValidation ==
    kg.called =>
        /\ (kg.args[1] = 0 \/ kg.args[1] > kg.args[2]) =>
              ~kg.ok /\ kg.code = "INVALID_THRESHOLD"
        /\ (kg.args[1] >= 1 /\ kg.args[1] <= kg.args[2] /\ kg.args[2] > MaxTotal) =>
              ~kg.ok /\ kg.code = "TOO_MANY_PARTICIPANTS"

\* That the arguments C11 speaks of are refused, whatever the code.
KeygenRefusesInvalidArgs ==
    (kg.called /\ (kg.args[1] = 0 \/ kg.args[1] > kg.args[2] \/ kg.args[2] > MaxTotal))
        => ~kg.ok /\ DOMAIN kg = {"args", "called", "ok", "code", "message"}

VerifyInputsWellFormed ==
    /\ SignatureCanonical(ver.signature)
    /\ VerifyingKeyCanonical(ver.group_public_key)
    /\ ver.message # NotHex
    /\ ScalarCanonical(ver.randomizer)

C13_VerifyOutcome ==
    ver.called =>
        /\ VerifyInputsWellFormed => ver.result.ok
        /\ ~VerifyInputsWellFormed =>
              ~ver.result.ok /\ ver.result.code = "INVALID_ENCODING"

\* The part of C13 that does not name the code: a boolean for well-formed
\* inputs, an error and no boolean for malformed ones.
VerifySeparatesMalformed ==
    ver.called => (ver.result.ok <=> VerifyInputsWellFormed)

\* C14 (closed error enumeration): the code of every error an operation
\* returns is one of the thirteen codes the specification lists.
ErrorCodes ==
    {"INVALID_THRESHOLD", "TOO_MANY_PARTICIPANTS", "INVALID_ENCODING",
     "INVALID_IDENTIFIER", "IDENTIFIER_NOT_IN_PACKAGE", "IDENTIFIER_SET_MISMATCH",
     "MISSING_COMMITMENT", "NONCE_ALREADY_USED", "INVALID_SIGNATURE_SHARE",
     "INVALID_RANDOMIZER", "INVALID_SIGNATURE", "RNG_FAILURE",
     "SERIALIZATION_ERROR"}

\* The error envelopes the calls made so far have returned.
ErrorOf(called, res) == IF called /\ ~res.ok THEN {res} ELSE {}
ErrorsReturned ==
    ErrorOf(kg.called, kg)
      \cup UNION {ErrorOf(r1[i].called, r1[i]) : i \in Participants}
      \cup (IF ctx.made /\ ~ctx.ok THEN ErrorOf(TRUE, ctx.result) ELSE {})
      \cup UNION {IF sh[i].called THEN ErrorOf(TRUE, sh[i].result) ELSE {} :
                     i \in Participants}
      \cup (IF agg.called THEN ErrorOf(TRUE, agg.result) ELSE {})
      \cup (IF ver.called THEN ErrorOf(TRUE, ver.result) ELSE {})

C14_ClosedErrorCodes == \A e \in ErrorsReturned : e.code \in ErrorCodes

\* The codes the wrappers do return, one per operation.
OperationCodes ==
    {"KEYGEN_ERROR", "ROUND1_ERROR", "SIGNING_PACKAGE_ERROR", "ROUND2_ERROR",
     "AGGREGATE_ERROR", "VERIFY_ERROR", "SERIALIZATION_ERROR"}
ErrorCodePerOperation == \A e \in ErrorsReturned : e.code \in OperationCodes

\* C15 (share/commitment set agreement): when the identifiers of the shares
\* and those of the package's commitments are not the same set, the
\* aggregator returns the error IDENTIFIER_SET_MISMATCH and no signature.
AggShareIds == {agg.shares[k].identifier : k \in 1 .. Len(agg.shares)}
AggCommitmentIds == {r1[i].commitment.identifier : i \in agg.set}

C15_SetAgreement ==
    (agg.called /\ AggShareIds # AggCommitmentIds) =>
        ~agg.result.ok /\ agg.result.code = "IDENTIFIER_SET_MISMATCH"

\* The part of C15 that does not name the code.
SetMismatchRefused ==
    (agg.called /\ AggShareIds # AggCommitmentIds) => ~agg.result.ok

\* C16 (round-2 precondition): round 2 returns a share only when the package
\* holds, under the caller's identifier, the commitment of the caller's
\* nonces; when the caller's commitment is missing it returns the error
\* MISSING_COMMITMENT and no share.
OwnCommitmentInPackage(i) ==
    \E k \in 1 .. Len(ctx.commitments) : ctx.commitments[k] = r1[i].commitment

C16_Round2Precondition ==
    \A i \in Participants :
        sh[i].called =>
            /\ sh[i].ok => OwnCommitmentInPackage(i)
            /\ ~OwnCommitmentInPackage(i) =>
                  ~sh[i].ok /\ sh[i].result.code = "MISSING_COMMITMENT"

\* The part of C16 that does not name the code.
ShareOnlyWithOwnCommitment ==
    \A i \in Participants : (sh[i].called /\ sh[i].ok) => OwnCommitmentInPackage(i)

\* C17 (identifier range): a commitment or share record whose wire
\* identifier is 0 or greater than 255 makes the operation that decodes it
\* (package assembly, round 2, aggregation) fail with INVALID_IDENTIFIER and
\* produce no result.
HasZero(list) == \E k \in 1 .. Len(list) : list[k].identifier = 0

C17_IdentifierRange ==
    /\ (binding = "json" /\ ctx.made /\ HasOutOfRange(ctx.list)) =>
          ~ctx.result.ok /\ ctx.result.code = "INVALID_IDENTIFIER"
    /\ \A i \in Participants :
          (binding = "hex" /\ sh[i].called /\ HasOutOfRange(sh[i].list)) =>
              ~sh[i].ok /\ sh[i].result.code = "INVALID_IDENTIFIER"
    /\ (agg.called /\ (HasOutOfRange(agg.shares)
                         \/ (binding = "hex" /\ HasOutOfRange(agg.commitments)))) =>
          ~agg.result.ok /\ agg.result.code = "INVALID_IDENTIFIER"

\* The part of C17 the code does implement: identifier 0 is refused by
\* every operation that decodes it.
ZeroIdentifierRefused ==
    /\ (binding = "json" /\ ctx.made /\ HasZero(ctx.list)) => ~ctx.result.ok
    /\ \A i \in Participants :
          (binding = "hex" /\ sh[i].called /\ HasZero(sh[i].list)) => ~sh[i].ok
    /\ (agg.called /\ (HasZero(agg.shares)
                         \/ (binding = "hex" /\ HasZero(agg.commitments)))) =>
          ~agg.result.ok

\* Identifiers above 255 are decoded like any other: package assembly
\* returns a package, and round 2 a share, over a list that holds one.
PackageOverIdentifierAbove255 ==
    binding = "json" /\ ctx.made /\ HasOutOfRange(ctx.list) /\ ctx.result.ok
ShareOverIdentifierAbove255 ==
    \E i \in Participants :
        binding = "hex" /\ sh[i].called /\ HasOutOfRange(sh[i].list) /\ sh[i].ok

\* C18 (codec round-trip): decoding what was encoded gives the entity back,
\* and every value one operation emits is accepted unchanged as input by
\* the next operation of the ceremony.
DecodingErrors ==
    {"Invalid inner nonces JSON", "Invalid nonce bytes", "Invalid randomizer JSON",
     "Invalid randomizer", "Invalid identifier", "Invalid commitment identifier",
     "Invalid commitment JSON", "Invalid commitment bytes", "Invalid share JSON",
     "Invalid share identifier", "Invalid signature share bytes",
     "Invalid signature", "Invalid verifying key", "Invalid group public key",
     "Invalid message hex"}

\* The result is not a refusal to decode an input.
Decoded(res) == res.ok \/ res.message \notin DecodingErrors

\* The wire identifier of a share decodes to the identifier it encodes.
IdentifierRoundTrip ==
    kg.ok => \A k \in 1 .. Len(kg.shares) :
                /\ IdentifierTryFromOk(kg.shares[k].identifier)
                /\ IdentifierTryFrom(kg.shares[k].identifier)
                      = kg.shares[k].key_package.identifier
                /\ IdNum(binding, IdentifierTryFrom(kg.shares[k].identifier))
                      = kg.shares[k].identifier

\* Calls whose inputs are all values earlier operations returned.
EmittedValuesAccepted ==
    /\ (ctx.made /\ ~ctx.ok) => Decoded(ctx.result)
    /\ \A i \in Participants : sh[i].called => Decoded(sh[i].result)
    /\ (agg.called /\ agg.kind \in {"honest", "otherset"}) => Decoded(agg.result)
    /\ (ver.called /\ ver.kind = "asis") => Decoded(ver.result)

C18_CodecRoundTrip == IdentifierRoundTrip /\ EmittedValuesAccepted

\* The same where the randomizers in use are canonical encodings, as those
\* of the JSON binding always are.
RoundTripCanonical ==
    (ctx.made /\ ctx.ok /\ ScalarCanonical(ctx.randomizer)
        /\ (ver.called => ScalarCanonical(ver.randomizer)))
      => C18_CodecRoundTrip

\* C19 (per-participant state machine): a participant's state only advances
\* Idle -> Committed -> Signed -> Done, or moves to Aborted, and Done and
\* Aborted are terminal: a share is emitted on the step from Committed to
\* Signed and on no other.
\* The state the specification's table assigns after the calls made so far.
Phase(i) ==
    IF ~r1[i].called THEN "Idle"
    ELSE IF ~r1[i].ok \/ HasFailed(i) THEN "Aborted"
    ELSE IF ~sh[i].called THEN "Committed"
    ELSE IF agg.called /\ agg.result.ok THEN "Done"
    ELSE "Signed"

ShareEmitted(i) == sh[i]' # sh[i] /\ sh[i]'.ok

C19_StateMachine ==
    [][\A i \in Participants : ShareEmitted(i) => Phase(i) = "Committed"]_vars

\* The parts of C19 that follow from the data flow: round 2 needs the nonces
\* round 1 returned, and the aggregator the shares round 2 returned for the
\* assembled package.
ShareAfterCommitment ==
    \A i \in Participants : sh[i].called => r1[i].called /\ r1[i].ok
AggregationAfterPackage ==
    agg.called => /\ ctx.made /\ ctx.ok
                  /\ \A k \in 1 .. Len(agg.shares) :
                        \E i \in Signed : agg.shares[k].share = sh[i].result.share

\* C20 (abort discards nonces): once a generate_round2_signature call of a
\* participant has failed, no later call with the same nonce pair returns a
\* signature share.
C20_AbortDiscardsNonces ==
    \A i \in Participants : (sh[i].called /\ sh[i].failed) => ~sh[i].ok

\* C21 (no shared state): the result of every operation depends only on its
\* arguments and the RNG draw, so whatever the interleaving of the calls of
\* two independent ceremonies, each call of a ceremony returns what it
\* returns when the ceremony runs alone.
AloneKg(c) == KeygenStep(Draw(c, 0))
AloneR1(c) == [i \in 1 .. 2 |-> Round1Step(AloneKg(c), i, Draw(c, i))]
AloneCtx(c) == PackageStep(AloneKg(c), AloneR1(c), CeremonyMessage(c), Draw(c, 3))
AloneSh(c) == [i \in 1 .. 2 |-> Round2Step(AloneKg(c), AloneR1(c), AloneCtx(c), i)]
AloneAgg(c) == AggregateStep(AloneKg(c), AloneCtx(c), AloneSh(c))
AloneVer(c) == VerifyStep(AloneKg(c), AloneCtx(c), AloneAgg(c))

C22_XedRoundTrip ==
    /\ xed.kp.called =>
          xed.kp.private_key.len = KeyLen /\ xed.kp.public_key.len = KeyLen
    /\ (xed.pub.called /\ xed.pub.private_key = xed.kp.private_key) =>
          xed.pub.ok /\ xed.pub.value = xed.kp.public_key
    /\ (xed.sig.called /\ xed.sig.private_key = xed.kp.private_key) =>
          xed.sig.ok /\ xed.sig.value.len = SignatureLen
    /\ (xed.ver.called /\ xed.sig.private_key = xed.kp.private_key
          /\ xed.ver.public_key = xed.kp.public_key
          /\ xed.ver.message = xed.sig.message
          /\ xed.ver.signature = xed.sig.value) =>
          xed.ver.ok /\ xed.ver.value

\* A keypair whose scalar is negated by calculate_key_pair, signed and
\* verified.
C22_Witness ==
    /\ xed.kp.called /\ SignBit(ClampInteger(xed.kp.private_key.val)) = 1
    /\ xed.pub.called /\ xed.pub.ok /\ xed.pub.value = xed.kp.public_key
    /\ xed.ver.called /\ xed.ver.public_key = xed.kp.public_key
    /\ xed.ver.message = xed.sig.message /\ xed.ver.signature = xed.sig.value
    /\ xed.ver.ok /\ xed.ver.value

\* C30 (XEdDSA length validation): get_public_key and sign return an error
\* exactly when the private key is not 32 bytes long; verify returns an
\* error, never false, when the public key is not 32 bytes or the signature
\* not 64 bytes long, the public key being tested first; with both of the
\* right length verify returns a boolean.
C30_XedLengthValidation ==
    /\ xed.pub.called =>
          IF xed.pub.private_key.len # 32
          THEN ~xed.pub.ok /\ xed.pub.error = "Private key must be 32 bytes"
          ELSE xed.pub.ok /\ xed.pub.value.len = 32
    /\ xed.sig.called =>
          IF xed.sig.private_key.len # 32
          THEN ~xed.sig.ok /\ xed.sig.error = "Private key must be 32 bytes"
          ELSE xed.sig.ok /\ xed.sig.value.len = 64
    /\ xed.ver.called =>
          IF xed.ver.public_key.len # 32
          THEN ~xed.ver.ok /\ xed.ver.error = "Public key must be 32 bytes"
          ELSE IF xed.ver.signature.len # 64
          THEN ~xed.ver.ok /\ xed.ver.error = "Signature must be 64 bytes"
          ELSE xed.ver.ok /\ xed.ver.value \in BOOLEAN

\* verify was given a public key and a signature both of a wrong length and
\* named the public key, after get_public_key refused a short private key.
C30_Witness ==
    /\ xed.pub.called /\ xed.pub.private_key.len = 31 /\ ~xed.pub.ok
    /\ xed.ver.called
    /\ xed.ver.public_key.len = 33 /\ xed.ver.signature.len = 63
    /\ ~xed.ver.ok /\ xed.ver.error = "Public key must be 32 bytes"

\* With inputs of the right length a signature that does not verify is
\* reported as false.
C30_FalseNotError ==
    /\ xed.ver.called /\ xed.ver.public_key.len = 32
    /\ xed.ver.signature.len = 64
    /\ xed.ver.ok /\ ~xed.ver.value

\* C23 (package-derived randomizer is deterministic): two calls of
\* create_signing_package with the same commitments, message and public key
\* package return the same randomizer and the same signing package.
C23_PackageDeterministic ==
    \A c \in Ceremonies :
        LET s == two.cer[c]
        IN s.again.called =>
              /\ s.again.ok
              /\ s.again.randomizer = s.ctx.randomizer
              /\ s.again.signing_package =
                    SigningPackageNew(CommitmentsMap(s.ctx.commitments), s.ctx.message)

\* The signing package of the second call is the one of the first call.
SamePackageAgain ==
    \A c \in Ceremonies :
        LET s == two.cer[c]
        IN s.again.called =>
              /\ s.again.ok
              /\ s.again.signing_package =
                    SigningPackageNew(CommitmentsMap(s.ctx.commitments), s.ctx.message)

\* The second call returned another randomizer.
OtherRandomizerAgain ==
    \E c \in Ceremonies :
        /\ two.cer[c].again.called /\ two.cer[c].again.ok
        /\ two.cer[c].kg.threshold = 2
        /\ two.cer[c].again.randomizer # two.cer[c].ctx.randomizer

\* C24 (identifier mapping is a bijection): every wire identifier accepted
\* by Identifier::try_from is reported unchanged, and two distinct accepted
\* wire identifiers are never reported as the same identifier.
C24_IdentifierBijection ==
    /\ (idm.first.called /\ idm.first.ok) => idm.first.reported = idm.first.wire
    /\ (idm.second.called /\ idm.first.ok /\ idm.second.ok
          /\ idm.first.wire # idm.second.wire) =>
          idm.first.reported # idm.second.reported

\* The same holds of the JSON binding, and of the hex binding for the
\* identifiers up to 255.
BijectionWhereTwoBytesOrSmall ==
    \A c \in {idm.first, idm.second} :
        (c.called /\ c.ok /\ (binding = "json" \/ c.wire <= MaxTotal)) =>
            c.reported = c.wire

\* Two distinct accepted wire identifiers reported as the same identifier.
TwoWireIdentifiersReportedAsOne ==
    /\ idm.first.called /\ idm.first.ok
    /\ idm.second.called /\ idm.second.ok
    /\ idm.first.wire # idm.second.wire
    /\ idm.first.reported = idm.second.reported

\* The aggregator was given the shares of the package's signers, two of
\* them altered.
TwoAltered == agg.called /\ agg.kind = "flip2" /\ Signed = ctx.signers

\* C25 (first offending share): when two of the supplied shares are invalid,
\* aggregate_signature returns an error that names the smaller of the two
\* identifiers.
C25_FirstOffendingShare ==
    TwoAltered =>
        /\ ~agg.result.ok
        /\ agg.result.culprit = IdentifierTryFrom(sh[agg.j].result.identifier)

\* The two altered shares as the aggregator received them.
AlteredShares ==
    {FlipBit(sh[agg.j].result.share, agg.bit), FlipBit(sh[agg.k].result.share, agg.bit2)}

\* When both altered shares decode and the library's aggregate reports a
\* share, it is the one of the smaller identifier, whatever the order of
\* the list.
SmallestDecodedShareNamed ==
    (TwoAltered /\ ~agg.result.ok
        /\ \A z \in AlteredShares : ScalarCanonical(z)) =>
        /\ agg.result.message = "InvalidSignatureShare"
        /\ agg.result.culprit = IdentifierTryFrom(sh[agg.j].result.identifier)

\* Two altered shares, one of which does not decode: the error names no
\* identifier.
UndecodableShareNotNamed ==
    /\ TwoAltered /\ kg.threshold = 2
    /\ ~agg.result.ok /\ agg.result.culprit = 0
    /\ agg.result.message \in {"Invalid share JSON", "Invalid signature share bytes"}

\* Two altered shares whose sum is the sum of the shares as returned: a
\* signature is returned.
AlteredSharesCancel ==
    /\ TwoAltered /\ kg.threshold = 2
    /\ agg.result.ok

\* The wire list without the records that a later record of the same
\* identifier follows.
KeepLast(list) ==
    LET keep == {k \in 1 .. Len(list) :
                   \A j \in k + 1 .. Len(list) :
                       list[j].identifier # list[k].identifier}
        at == SortedSeq(keep)
    IN [n \in 1 .. Len(at) |-> list[at[n]]]

\* C26 (duplicate identifiers are collapsed silently): a commitments list or
\* a shares list with two records of one identifier is treated as the list
\* with the earlier record left out: signing-package assembly returns a
\* package with one entry per distinct identifier, fewer than the list has
\* records, and round 2 and aggregation return what they return for the
\* list without the earlier record.
C26_DuplicatesCollapsed ==
    /\ (binding = "json" /\ ctx.made /\ HasDuplicate(ctx.list)) =>
          /\ ctx.result.ok
          /\ Len(ctx.result.signing_package.signing_commitments) < Len(ctx.list)
          /\ LET m == ctx.result.signing_package.signing_commitments
                 v == CommitmentsVec(KeepLast(ctx.list))
             IN /\ Len(m) = Cardinality({ctx.list[k].identifier : k \in 1 .. Len(ctx.list)})
                /\ {m[k] : k \in 1 .. Len(m)} = {v[k] : k \in 1 .. Len(v)}
    /\ \A i \in Participants :
          (sh[i].called /\ HasDuplicate(sh[i].list)) =>
              sh[i].result = GenerateRound2Internal(kg.shares[i].key_package,
                                 r1[i].nonces, KeepLast(sh[i].list), ctx.message,
                                 sh[i].randomizer)
    /\ (agg.called /\ (HasDuplicate(agg.shares) \/ HasDuplicate(agg.commitments))) =>
          agg.result = AggregateInternal(KeepLast(agg.shares),
                           KeepLast(agg.commitments), ctx.message, ctx.randomizer)

\* A package assembled from three records for two identifiers has two
\* entries, the first identifier with the commitment of the later record.
C26_Witness ==
    /\ binding = "json" /\ ctx.made /\ Len(ctx.list) = 3 /\ HasDuplicate(ctx.list)
    /\ ctx.result.ok
    /\ Len(ctx.result.signing_package.signing_commitments) = 2
    /\ ctx.result.signing_package.signing_commitments[1].value.hiding = ctx.list[3].hiding
    /\ ctx.list[1].hiding # ctx.list[3].hiding

\* Aggregation over a shares list with a duplicate record.
DuplicateShareAggregated ==
    /\ agg.called /\ Len(agg.shares) = 3 /\ HasDuplicate(agg.shares)
    /\ kg.threshold = 2

\* Hex round 2 over a commitments list with a duplicate record.
DuplicateCommitmentSigned ==
    \E i \in Participants :
        /\ binding = "hex" /\ sh[i].called /\ Len(sh[i].list) = 3
        /\ HasDuplicate(sh[i].list) /\ kg.threshold = 2

RandomizerAgreementAnyThreshold ==
    (agg.called /\ agg.result.ok) =>
        \A i \in ctx.signers : sh[i].used = agg.randomizer

AggregatorOtherRandomizer ==
    /\ agg.called /\ ~agg.result.ok /\ kg.threshold = 2
    /\ agg.randomizer # ctx.randomizer /\ agg.randomizer # EmptyHex
    /\ \A i \in ctx.signers : sh[i].used = ctx.randomizer

\* With one randomizer throughout a signature is returned.
AgreedRandomizerAggregates ==
    /\ agg.called /\ agg.result.ok /\ kg.threshold = 2
    /\ Cardinality(ctx.signers) = 2

\* C28 (empty randomizer in the hex binding): generate_round2_signature
\* called with an empty randomizer_hex does not fail and returns a share
\* that does not carry the randomizer it sampled, whereas aggregate_signature
\* and verify_signature refuse an empty randomizer_hex with an error.
C28_EmptyRandomizer ==
    binding = "hex" =>
        /\ \A i \in Participants :
              (sh[i].called /\ sh[i].randomizer = EmptyHex) =>
                  /\ sh[i].result.ok
                  /\ DOMAIN sh[i].result = {"called", "ok", "identifier", "share"}
        /\ (agg.called /\ agg.randomizer = EmptyHex) => ~agg.result.ok
        /\ (ver.called /\ ver.randomizer = EmptyHex) => ~ver.result.ok

\* What holds of it: a share returned for an empty randomizer_hex carries
\* no randomizer, and aggregation and verification refuse the empty one.
EmptyRandomizerRefusedLater ==
    binding = "hex" =>
        /\ \A i \in Participants :
              (sh[i].called /\ sh[i].randomizer = EmptyHex /\ sh[i].result.ok) =>
                  DOMAIN sh[i].result = {"called", "ok", "identifier", "share"}
        /\ (agg.called /\ agg.randomizer = EmptyHex) =>
              ~agg.result.ok /\ agg.result.message = "Invalid randomizer"
        /\ (ver.called /\ ver.randomizer = EmptyHex) =>
              ~ver.result.ok /\ ver.result.message = "Invalid randomizer"

\* Round 2 with an empty randomizer_hex failed on the bytes it drew.
EmptyRandomizerFails ==
    \E i \in Participants :
        /\ binding = "hex" /\ kg.ok /\ kg.threshold = 2
        /\ sh[i].called /\ sh[i].randomizer = EmptyHex
        /\ ~sh[i].result.ok
        /\ sh[i].result.message = "Failed to create randomizer"

\* Two signers passed an empty randomizer_hex and signed under two different
\* randomizers; the aggregator, given the coordinator's, refused.
EmptyRandomizersIndependent ==
    \E i, j \in Participants :
        /\ binding = "hex" /\ kg.ok /\ kg.threshold = 2 /\ i # j
        /\ sh[i].called /\ sh[i].randomizer = EmptyHex /\ sh[i].result.ok
        /\ sh[j].called /\ sh[j].randomizer = EmptyHex /\ sh[j].result.ok
        /\ sh[i].used # sh[j].used
        /\ agg.called /\ agg.randomizer = ctx.randomizer /\ ~agg.result.ok

\* Verification was given an empty randomizer_hex.
EmptyRandomizerVerified ==
    binding = "hex" /\ ver.called /\ ver.randomizer = EmptyHex /\ kg.threshold = 2

\* C29 (share identifier comes from the key package): the identifier in the
\* record generate_round2_signature returns is the identifier of the key
\* package, and a nonces record labelled with another identifier gives the
\* result the record with its own label gives.
C29_IdentifierFromKeyPackage ==
    \A i \in Participants :
        sh[i].called =>
            /\ sh[i].result.ok =>
                  sh[i].result.identifier =
                      IdNum(binding, kg.shares[i].key_package.identifier)
            /\ sh[i].nonces.identifier # r1[i].nonces.identifier =>
                  sh[i].result = GenerateRound2InternalRng(kg.shares[i].key_package,
                                     r1[i].nonces, ctx.commitments, ctx.message,
                                     sh[i].randomizer, 0)

\* A signer of a (2, 2) key set passed its nonces under the other signer's
\* label and was returned a share under its own identifier, which the
\* aggregator accepted.
C29_Witness ==
    \E i \in Participants :
        /\ kg.ok /\ kg.threshold = 2
        /\ sh[i].called /\ sh[i].nonces.identifier # r1[i].nonces.identifier
        /\ sh[i].result.ok
        /\ sh[i].result.identifier = kg.shares[i].identifier
        /\ sh[i].result.identifier # sh[i].nonces.identifier
        /\ agg.called /\ agg.result.ok

=============================================================================
